---- MODULE Spec2Model ----
(***************************************************************************)
(* Dynamic-playlist resolution engine and local metadata store of          *)
(* euphonica: the comparator (client/background.rs), the rule resolver and *)
(* fetch orchestrator (client/background.rs) and the SQLite store          *)
(* (cache/sqlite.rs).                                                      *)
(*                                                                         *)
(* The specifications of the module:                                       *)
(*   SpecCmp    the compiled comparator applied to two (song, stickers)    *)
(*              pairs;                                                     *)
(*   Spec       one run of fetch_dynamic_playlist / _cached on the         *)
(*              background client thread against a remote server;          *)
(*   SpecStore  store transactions issued by several threads.              *)
(* SpecResolve runs resolve_dynamic_playlist_rules on its own, SpecPaging   *)
(* the four paging loops, SpecBind the choice of bind_by_name              *)
(* (library/dynamic_playlist_content_view.rs), SpecRoundtrip the rows of   *)
(* query_results written and read back, SpecMigrate the migration loop,    *)
(* SpecRace two cache writes of one dynamic playlist at the same time,     *)
(* SpecQueue the queuing operations of the background client,              *)
(* SpecAlbumMeta write_album_meta, SpecEditor the ordering section of the  *)
(* dynamic playlist editor (library/dynamic_playlist_editor_view.rs) and   *)
(* SpecRecent fetch_last_n_songs.                                          *)
(***************************************************************************)
EXTENDS Integers, Sequences, FiniteSets, TLC

VARIABLES
    \* ---- comparator ----
    cmpOrd,      \* the Ordering list given to build_comparator
    cmpA,        \* first (SongInfo, Stickers) pair
    cmpB,        \* second (SongInfo, Stickers) pair
    cmpRes,      \* what the comparator returned, "none" before the call
    \* ---- remote server, as seen by the background client ----
    remote,      \* which requests the server answers with an error
    now,         \* wall-clock time (Local::now) of the resolution
    \* ---- resolve_dynamic_playlist_rules ----
    rules,            \* the Vec<Rule> being resolved
    rpc,              \* position in the function
    query_clauses,    \* (QueryLhs, rhs) pairs collected from the rules
    sticker_clauses,  \* (object type, key, operation, rhs) tuples collected
    res,              \* the running candidate set (FxHashSet<String>)
    clauseIdx,        \* index of the next sticker clause of the for loop
    calls,            \* the remote round-trips issued so far, in order
    ret,              \* the returned URIs (a Vec in hash order: a set)
    \* ---- fetch_dynamic_playlist / fetch_dynamic_playlist_cached ----
    pc,               \* position of the background client in the fetch
    dp,               \* the DynamicPlaylist argument
    cache,            \* the cache argument of fetch_dynamic_playlist
    fn,               \* which of the two functions was called
    tagtypes,         \* the tag types the connection reports
    cacheWrite,       \* how the call of cache_dynamic_playlist_results ended
    songs_stickers,   \* the hydrated songs, in Vec order
    sent,             \* DynamicPlaylistSongInfoDownloaded messages sent, in order
    hydration,        \* the last call of fetch_songs_by_uri: its URIs and the server's faults
    \* ---- the store as the background client sees it ----
    query_results,    \* table query_results: DP name -> cached URIs in row order
    last_refresh,     \* column queries.last_refresh: DP name -> time or None
    \* ---- the store as its calling threads see it ----
    queries,          \* table queries: the committed rows
    images,           \* table images: the committed rows
    dbVersion,        \* number of transactions committed so far
    writer,           \* the thread whose connection holds the write lock
    tx,               \* per thread: the store function it runs and its transaction
    jobs,             \* closures pushed to SQLITE_WRITE_THREADPOOL, not yet run
    pushed,           \* number of closures pushed so far
    faulted,          \* TRUE once a statement failed for a reason of the environment
    \* ---- one paging loop of the background client ----
    paging,           \* the loop's function, curr_len, more and what it has received
    \* ---- bind_by_name of the dynamic playlist content view ----
    binding,          \* the stored DP, the time, and the fetch mode chosen
    \* ---- the migration loop run when SQLITE_POOL is created ----
    schema,           \* user_version, the tables found, the batches executed
    \* ---- table query_results row by row ----
    roundtrip,        \* the rows, the call made and what the read returned
    \* ---- one queuing operation of the background client ----
    queuing,          \* the operation, its arguments, its position and the messages sent
    \* ---- write_album_meta on table albums ----
    albumMeta,        \* the rows, the album written, the transaction and the result
    \* ---- the ordering section of the dynamic playlist editor ----
    editor,           \* the ordering buttons, the menu offered and the Add Ordering button
    \* ---- fetch_last_n_songs ----
    recent            \* the history rows read, the songs found and the songs delivered

cmpVars == <<cmpOrd, cmpA, cmpB, cmpRes>>

remoteVars == <<remote, now>>

resolveVars == <<rules, rpc, query_clauses, sticker_clauses, res, clauseIdx, calls, ret>>

fetchVars == <<pc, dp, cache, fn, tagtypes, songs_stickers, sent, cacheWrite, hydration>>

cacheVars == <<query_results, last_refresh>>

storeVars == <<queries, images, dbVersion, writer, tx, jobs, pushed, faulted>>

auxVars == <<editor, recent>>

sideVars == <<paging, binding, schema, roundtrip, queuing, albumMeta, auxVars>>

vars == <<cmpVars, remoteVars, resolveVars, fetchVars, cacheVars, storeVars, sideVars>>

-----------------------------------------------------------------------------
(* Bounds *)

\* Longest Ordering list tried.
MaxOrderings == 2
\* Present field values are 0..MaxVal.
MaxVal == 1
\* Longest rule list resolved.
MaxRules == 2
\* Songs of the library beyond two full windows.
MaxExtra == 1

-----------------------------------------------------------------------------
(* Comparator: client/background.rs *)

\* Option<T>: None is the empty sequence, Some(v) the one-element sequence.
None == <<>>
Some(v) == <<v>>

\* i64::MAX, the value the Track key substitutes for a negative track number.
\* The 64-bit width is scaled to the 32-bit integers of the model checker: it
\* is the greatest value a track number can hold.
I64_MAX == 2147483647

\* The Ordering variants matched by build_comparator.
OrderingKeys ==
    {"AscAlbumTitle", "DescAlbumTitle", "Track", "AscReleaseDate",
     "DescReleaseDate", "AscArtistTag", "DescArtistTag", "AscRating",
     "DescRating", "AscLastModified", "DescLastModified", "AscPlayCount",
     "DescPlayCount", "AscSkipCount", "DescSkipCount", "Random"}

\* The field of the pair each key reads.
FieldOf(ordering) ==
    CASE ordering \in {"AscAlbumTitle", "DescAlbumTitle"} -> "album_title"
      [] ordering = "Track" -> "track"
      [] ordering \in {"AscReleaseDate", "DescReleaseDate"} -> "release_date"
      [] ordering \in {"AscArtistTag", "DescArtistTag"} -> "artist_tag"
      [] ordering \in {"AscRating", "DescRating"} -> "rating"
      [] ordering \in {"AscLastModified", "DescLastModified"} -> "last_modified"
      [] ordering \in {"AscPlayCount", "DescPlayCount"} -> "play_count"
      [] ordering \in {"AscSkipCount", "DescSkipCount"} -> "skip_count"
      [] OTHER -> "none"

Fields ==
    {"album_title", "track", "release_date", "artist_tag", "rating",
     "last_modified", "play_count", "skip_count"}

\* Ord::cmp on integers.
IntCmp(x, y) == IF x < y THEN "Less" ELSE IF x > y THEN "Greater" ELSE "Equal"

\* std::cmp::Ordering::reverse.
Reverse(o) == IF o = "Less" THEN "Greater" ELSE IF o = "Greater" THEN "Less" ELSE o

cmp_options_nulls_last(a, b) ==
    CASE a # None /\ b # None -> IntCmp(a[1], b[1])
      [] a # None /\ b = None -> "Less"
      [] a = None /\ b # None -> "Greater"
      [] OTHER -> "Equal"

reverse_cmp_options_nulls_last(a, b) ==
    CASE a # None /\ b # None -> Reverse(IntCmp(a[1], b[1]))
      [] a # None /\ b = None -> "Less"
      [] a = None /\ b # None -> "Greater"
      [] OTHER -> "Equal"

\* The Track arm: a negative track number is replaced by i64::MAX.
TrackRemap(track) == IF track < 0 THEN I64_MAX ELSE track

\* One arm of the match in build_comparator's closure.
KeyCmp(ordering, a, b) ==
    CASE ordering = "Track" -> IntCmp(TrackRemap(a.track), TrackRemap(b.track))
      [] ordering = "Random" -> "unreachable"
      [] ordering \in {"AscAlbumTitle", "AscReleaseDate", "AscArtistTag", "AscRating",
                       "AscLastModified", "AscPlayCount", "AscSkipCount"} ->
            cmp_options_nulls_last(a[FieldOf(ordering)], b[FieldOf(ordering)])
      [] OTHER ->
            reverse_cmp_options_nulls_last(a[FieldOf(ordering)], b[FieldOf(ordering)])

\* A loop that does not return at the first key that decides, so that a later
\* key overrides it: C25 must not hold of it.
RECURSIVE LastKeyDecides(_, _, _)
LastKeyDecides(orderings, a, b) ==
    IF orderings = <<>> THEN "Equal"
    ELSE LET rest == LastKeyDecides(Tail(orderings), a, b)
         IN  IF rest # "Equal" THEN rest ELSE KeyCmp(Head(orderings), a, b)

\* The closure returned by build_comparator(orderings), applied to (a, b).
RECURSIVE build_comparator(_, _, _)
build_comparator(orderings, a, b) ==
    IF orderings = <<>> THEN "Equal"
    ELSE LET keyRes == KeyCmp(Head(orderings), a, b)
         IN  IF keyRes # "Equal" THEN keyRes
             ELSE build_comparator(Tail(orderings), a, b)

\* The values a field can hold: track is an i64 (negative: no track number),
\* every other compared field an Option.
FieldValues(f) ==
    IF f = "track" THEN {-1, I64_MAX} \cup (0..MaxVal)
    ELSE {None} \cup {Some(v) : v \in 0..MaxVal}

\* The value of a field the ordering list does not read.
BlankValue(f) == IF f = "track" THEN -1 ELSE None

\* Ordering lists of at most MaxOrderings keys.
OrderingLists == UNION {[1..n -> OrderingKeys] : n \in 0..MaxOrderings}

\* The fields an ordering list reads.
FieldsRead(orderings) ==
    {FieldOf(orderings[i]) : i \in 1..Len(orderings)} \ {"none"}

\* The values tried for field f when the ordering list reads the fields fs.
Vals(f, fs) == IF f \in fs THEN FieldValues(f) ELSE {BlankValue(f)}

\* The (SongInfo, Stickers) pairs that vary on the fields in fs.
PairsOver(fs) ==
    [album_title : Vals("album_title", fs), track : Vals("track", fs),
     release_date : Vals("release_date", fs), artist_tag : Vals("artist_tag", fs),
     rating : Vals("rating", fs), last_modified : Vals("last_modified", fs),
     play_count : Vals("play_count", fs), skip_count : Vals("skip_count", fs)]


-----------------------------------------------------------------------------
(* Remote server: the MPD calls of client/background.rs *)

\* Records fetched per round-trip. The source's 128 is scaled to 2 so that
\* several windows fit a small library; the window arithmetic is unchanged.
BATCH_SIZE == 2

\* Upper limit of every paging loop.
FETCH_LIMIT == 10000000

\* The songs of the remote library are the URIs 1..LibSize.
LibSize == 2 * BATCH_SIZE + MaxExtra
Library == 1..LibSize

Min(x, y) == IF x < y THEN x ELSE y

\* The elements of a set of integers in increasing order.
RECURSIVE SortedSeq(_)
SortedSeq(S) ==
    IF S = {} THEN <<>>
    ELSE LET m == CHOOSE x \in S : \A y \in S : x <= y
         IN  <<m>> \o SortedSeq(S \ {m})

Range(seq) == {seq[i] : i \in 1..Len(seq)}

\* Window (start, end) of a result list: records start .. end-1, counted from 0.
Page(list, start, end) == SubSeq(list, start + 1, Min(end, Len(list)))

\* ---- what the server stores ----
\* Sticker "rating" of a song; song 2 has none.
SongRating(u) == IF u = 2 THEN None ELSE Some(u % 3)
\* Sticker "lastPlayed" of a song (a timestamp); songs above 3 were never played.
SongLastPlayed(u) == IF u <= 3 THEN Some(u) ELSE None
\* Last-modified time of a song.
SongMtime(u) == u
\* Album tag of a song: odd songs are on album 1, even songs on album 2.
SongAlbum(u) == IF u % 2 = 1 THEN 1 ELSE 2
Albums == {1, 2}
AlbumRating(a) == IF a = 1 THEN Some(2) ELSE Some(1)
\* The one stored playlist, its songs and its rating sticker.
Playlists == {1}
PlaylistSongs(p) == <<2, 3, LibSize>>
PlaylistRating(p) == Some(1)

\* The sticker value of object `name` of type obj under key.
StickerValue(obj, key, name) ==
    CASE obj = "song" /\ key = "rating" -> SongRating(name)
      [] obj = "song" /\ key = "lastPlayed" -> SongLastPlayed(name)
      [] obj = "album" /\ key = "rating" -> AlbumRating(name)
      [] obj = "playlist" /\ key = "rating" -> PlaylistRating(name)
      [] OTHER -> None

ObjectsOf(obj) ==
    CASE obj = "song" -> Library
      [] obj = "album" -> Albums
      [] OTHER -> Playlists

\* The server's comparison of a sticker value with the right-hand side.
StickerOpHolds(op, value, rhs) ==
    CASE op = "IntGreaterThan" -> value > rhs
      [] op = "IntLessThan" -> value < rhs
      [] OTHER -> value = rhs

\* Every object the server reports for a sticker comparison, in its order.
StickerMatches(obj, key, op, rhs) ==
    SortedSeq({n \in ObjectsOf(obj) :
        /\ StickerValue(obj, key, n) # None
        /\ StickerOpHolds(op, StickerValue(obj, key, n)[1], rhs)})

\* One term of an attribute query, evaluated by the server on song u.
TermHolds(term, u) ==
    CASE term[1] = "File" -> u = term[2]
      [] term[1] = "Album" -> SongAlbum(u) = term[2]
      [] term[1] = "LastMod" -> SongMtime(u) >= term[2]
      [] OTHER -> TRUE   \* AddedSince i64::MIN

\* The songs matching the AND of the terms of a query, in the server's order.
QueryMatches(query) ==
    SortedSeq({u \in Library : \A i \in 1..Len(query) : TermHolds(query[i], u)})

\* client.find(query, window): an error, or the page of the matches.
client_find(query, start) ==
    IF remote.findErrAt = start THEN [ok |-> FALSE, items |-> <<>>]
    ELSE [ok |-> TRUE, items |-> Page(QueryMatches(query), start, start + BATCH_SIZE)]

\* client.find_sticker_op(obj, "", key, op, rhs, window).
client_find_sticker_op(obj, key, op, rhs, start) ==
    IF remote.stickerErrAt = start THEN [ok |-> FALSE, items |-> <<>>]
    ELSE [ok |-> TRUE,
          items |-> Page(StickerMatches(obj, key, op, rhs), start, start + BATCH_SIZE)]

\* client.playlist(name, range): range <<>> asks for the whole playlist.
client_playlist(name, range) ==
    IF remote.playlistErr THEN [ok |-> FALSE, items |-> <<>>]
    ELSE IF range = <<>> THEN [ok |-> TRUE, items |-> PlaylistSongs(name)]
    ELSE [ok |-> TRUE, items |-> Page(PlaylistSongs(name), range[1], range[2])]

\* The combinations of failing requests tried.
Remotes ==
    [findErrAt : {-1, 0, BATCH_SIZE},
     stickerErrAt : {-1, 0, BATCH_SIZE, 2 * BATCH_SIZE},
     playlistErr : BOOLEAN,
     v24 : BOOLEAN]

\* A round-trip in the call log: the command, the start of its window and
\* what was sent with it (the terms of a query, the right-hand side of a
\* sticker comparison, the name of a playlist).
Call(op, start, sentWith) == [op |-> op, start |-> start, sentWith |-> sentWith]

-----------------------------------------------------------------------------
(* Paging loops: client/background.rs *)

\* fetch_songs_by_query from window curr_len on: the songs handed to respond
\* and the round-trips made.
RECURSIVE FetchSongsByQueryFrom(_, _)
FetchSongsByQueryFrom(query, curr_len) ==
    IF ~(curr_len < FETCH_LIMIT) THEN [songs |-> <<>>, calls |-> <<>>]
    ELSE LET r == client_find(query, curr_len)
             call == <<Call("find", curr_len, query)>>
         IN  IF ~r.ok \/ r.items = <<>>
             THEN [songs |-> <<>>, calls |-> call]          \* more = false
             ELSE LET rest == FetchSongsByQueryFrom(query, curr_len + BATCH_SIZE)
                  IN  [songs |-> r.items \o rest.songs, calls |-> call \o rest.calls]

fetch_songs_by_query(query) == FetchSongsByQueryFrom(query, 0)

\* The paged branch (MPD 0.24+) of fetch_playlist_songs_internal. An error
\* calls on_error and leaves `more` set, so the same window is requested again:
\* against a server that keeps failing the loop does not end (hang).
RECURSIVE FetchPlaylistPagedFrom(_, _)
FetchPlaylistPagedFrom(name, curr_len) ==
    IF ~(curr_len < FETCH_LIMIT) THEN [songs |-> <<>>, calls |-> <<>>, hang |-> FALSE]
    ELSE LET r == client_playlist(name, <<curr_len, curr_len + BATCH_SIZE>>)
             call == <<Call("playlist", curr_len, <<name>>)>>
         IN  IF ~r.ok THEN [songs |-> <<>>, calls |-> call, hang |-> TRUE]
             ELSE IF Len(r.items) >= BATCH_SIZE
             THEN LET rest == FetchPlaylistPagedFrom(name, curr_len + Len(r.items))
                  IN  [songs |-> r.items \o rest.songs, calls |-> call \o rest.calls,
                       hang |-> rest.hang]
             ELSE [songs |-> r.items, calls |-> call, hang |-> FALSE]

fetch_playlist_songs_internal(name) ==
    IF ~remote.v24
    THEN LET r == client_playlist(name, <<>>)
         IN  [songs |-> r.items, calls |-> <<Call("playlist", 0, <<name>>)>>, hang |-> FALSE]
    ELSE FetchPlaylistPagedFrom(name, 0)

\* The URIs behind the names of one page of a sticker search.
RECURSIVE ExpandNames(_, _)
ExpandNames(obj, names) ==
    IF names = <<>> THEN [uris |-> {}, calls |-> <<>>, hang |-> FALSE]
    ELSE LET first ==
                 CASE obj = "song" ->
                        [uris |-> {Head(names)}, calls |-> <<>>, hang |-> FALSE]
                   [] obj = "playlist" ->
                        LET p == fetch_playlist_songs_internal(Head(names))
                        IN  [uris |-> Range(p.songs), calls |-> p.calls, hang |-> p.hang]
                   [] OTHER ->
                        LET q == fetch_songs_by_query(<< <<"Album", Head(names)>> >>)
                        IN  [uris |-> Range(q.songs), calls |-> q.calls, hang |-> FALSE]
         IN  IF first.hang THEN first
             ELSE LET rest == ExpandNames(obj, Tail(names))
                  IN  [uris |-> first.uris \cup rest.uris,
                       calls |-> first.calls \o rest.calls, hang |-> rest.hang]

\* curr_len after a non-empty page in fetch_uris_by_sticker: the Song arm adds
\* BATCH_SIZE, and the statement after the match adds it again for every type.
StickerAdvance(obj, curr_len) ==
    IF obj = "song" THEN (curr_len + BATCH_SIZE) + BATCH_SIZE
    ELSE curr_len + BATCH_SIZE

RECURSIVE FetchUrisByStickerFrom(_, _, _, _, _)
FetchUrisByStickerFrom(obj, key, op, rhs, curr_len) ==
    IF ~(curr_len < FETCH_LIMIT) THEN [uris |-> {}, calls |-> <<>>, hang |-> FALSE]
    ELSE LET r == client_find_sticker_op(obj, key, op, rhs, curr_len)
             call == <<Call("find_sticker_op", curr_len, <<rhs>>)>>
         IN  IF ~r.ok \/ r.items = <<>>
             THEN [uris |-> {}, calls |-> call, hang |-> FALSE]   \* more = false
             ELSE LET page == ExpandNames(obj, r.items)
                  IN  IF page.hang
                      THEN [uris |-> page.uris, calls |-> call \o page.calls, hang |-> TRUE]
                      ELSE LET rest == FetchUrisByStickerFrom(obj, key, op, rhs,
                                                              StickerAdvance(obj, curr_len))
                           IN  [uris |-> page.uris \cup rest.uris,
                                calls |-> call \o page.calls \o rest.calls,
                                hang |-> rest.hang]

fetch_uris_by_sticker(obj, key, op, rhs) == FetchUrisByStickerFrom(obj, key, op, rhs, 0)

-----------------------------------------------------------------------------
(* Rule resolver: resolve_dynamic_playlist_rules *)

\* Rules are tuples: <<"Sticker", obj, key, op, rhs>>, <<"Query", lhs, rhs>>
\* and <<"LastModified", secs>>.
StickerRules ==
    {<<"Sticker", "song", "rating", "IntGreaterThan", 0>>,
     <<"Sticker", "song", "rating", "IntGreaterThan", 1>>,
     <<"Sticker", "song", "rating", "IntLessThan", 0>>,
     <<"Sticker", "song", "lastPlayed", "IntGreaterThan", 8>>,
     <<"Sticker", "album", "rating", "IntGreaterThan", 0>>,
     <<"Sticker", "album", "rating", "IntGreaterThan", 1>>,
     <<"Sticker", "playlist", "rating", "IntGreaterThan", 0>>}

\* No song is on album 3.
QueryRules == {<<"Query", "Album", 1>>, <<"Query", "Album", 3>>, <<"Query", "File", 4>>}

LastModifiedRules == {<<"LastModified", 7>>}

RuleUniverse == StickerRules \cup QueryRules \cup LastModifiedRules

RuleLists(n) == UNION {[1..k -> RuleUniverse] : k \in 0..n}

\* A conversion that sends the seconds as they stand in the rule: C36 must
\* not hold of it.
SecondsAsWritten(backoff) == backoff

\* Lines 987-991: the current local time less backoff seconds, as a Unix
\* timestamp.
get_past_unix_timestamp(backoff) == now - backoff

\* The (lhs, rhs) pairs pushed to query_clauses, in rule order.
RECURSIVE QueryClausesOf(_)
QueryClausesOf(rs) ==
    IF rs = <<>> THEN <<>>
    ELSE LET rule == Head(rs)
             this == CASE rule[1] = "Query" -> << <<rule[2], rule[3]>> >>
                       [] rule[1] = "LastModified" ->
                            << <<"LastMod", get_past_unix_timestamp(rule[2])>> >>
                       [] OTHER -> <<>>
         IN  this \o QueryClausesOf(Tail(rs))

\* The (obj, key, op, rhs) tuples pushed to sticker_clauses, in rule order.
RECURSIVE StickerClausesOf(_)
StickerClausesOf(rs) ==
    IF rs = <<>> THEN <<>>
    ELSE LET rule == Head(rs)
             this == IF rule[1] = "Sticker"
                     THEN << <<rule[2], rule[3], rule[4], rule[5]>> >>
                     ELSE <<>>
         IN  this \o StickerClausesOf(Tail(rs))

\* A dummy term that no song matches: C35 must not hold of it.
BuildQueryMatchingNothing(qcs) ==
    IF qcs # <<>> THEN qcs ELSE << <<"LastMod", I64_MAX>> >>

\* The mpd Query built from the query clauses; a term matching everything
\* when there is none.
BuildQuery(qcs) ==
    IF qcs # <<>> THEN qcs ELSE << <<"AddedSince", -I64_MAX>> >>

\* The right-hand side sent for a sticker clause: relative to now for
\* lastPlayed and lastSkipped.
StickerRhs(clause) ==
    IF clause[2] \in {"lastPlayed", "lastSkipped"}
    THEN get_past_unix_timestamp(clause[4])
    ELSE clause[4]

\* The match set collected for one sticker clause, with its round-trips.
ClauseFetch(clause) ==
    fetch_uris_by_sticker(clause[1], clause[2], clause[3], StickerRhs(clause))

\* A retain that keeps every candidate: C1 must not hold of it.
RetainNothing(running, set) == running

\* res.retain(|elem| set.contains(elem))
Retain(running, set) == running \cap set

\* A loop that goes on whatever is left: C9 must not hold of it.
NeverReturnsEarly(kept) == FALSE

\* if res.is_empty() { return Vec::with_capacity(0); }
ReturnsEarly(kept) == kept = {}

\* Tag the round-trips of sticker clause i (0: the seed query).
Tagged(cs, i) ==
    [k \in 1..Len(cs) |->
        [op |-> cs[k].op, start |-> cs[k].start, sentWith |-> cs[k].sentWith, clause |-> i]]

ResolveIdle ==
    /\ rules = <<>>
    /\ rpc = "off"
    /\ query_clauses = <<>>
    /\ sticker_clauses = <<>>
    /\ res = {}
    /\ clauseIdx = 0
    /\ calls = <<>>
    /\ ret = {}

\* Lines 999-1015: split the rules into query clauses and sticker clauses.
Partition ==
    /\ rpc = "start"
    /\ query_clauses' = QueryClausesOf(rules)
    /\ sticker_clauses' = StickerClausesOf(rules)
    /\ rpc' = "seed"
    /\ UNCHANGED <<rules, res, clauseIdx, calls, ret>>

\* Lines 1016-1032: run the combined query, collecting the seed set.
SeedQuery ==
    /\ rpc = "seed"
    /\ LET f == fetch_songs_by_query(BuildQuery(query_clauses))
       IN  /\ res' = Range(f.songs)
           /\ calls' = calls \o Tagged(f.calls, 0)
    /\ clauseIdx' = 1
    /\ rpc' = "stickers"
    /\ UNCHANGED <<rules, query_clauses, sticker_clauses, ret>>

\* Lines 1036-1081: one iteration of the loop over the sticker clauses.
StickerClause ==
    /\ rpc = "stickers"
    /\ clauseIdx <= Len(sticker_clauses)
    /\ LET f == ClauseFetch(sticker_clauses[clauseIdx])
           kept == Retain(res, f.uris)
       IN  /\ calls' = calls \o Tagged(f.calls, clauseIdx)
           /\ IF f.hang
              THEN /\ rpc' = "hung"
                   /\ UNCHANGED <<res, ret, clauseIdx>>
              ELSE /\ res' = kept
                   /\ IF ReturnsEarly(kept)
                      THEN /\ rpc' = "done"
                           /\ ret' = {}
                           /\ UNCHANGED clauseIdx
                      ELSE /\ rpc' = "stickers"
                           /\ clauseIdx' = clauseIdx + 1
                           /\ UNCHANGED ret
    /\ UNCHANGED <<rules, query_clauses, sticker_clauses>>

\* A resolver that runs the combined query once more after the sticker
\* clauses: C34 must not hold of it.
ResolveReturnQueriesAgain ==
    /\ rpc = "stickers"
    /\ clauseIdx > Len(sticker_clauses)
    /\ LET f == fetch_songs_by_query(BuildQuery(query_clauses))
       IN  /\ ret' = res \cap Range(f.songs)
           /\ calls' = calls \o Tagged(f.calls, 0)
    /\ rpc' = "done"
    /\ UNCHANGED <<rules, query_clauses, sticker_clauses, res, clauseIdx>>

\* Line 1083: the loop is over, return the candidate set.
ResolveReturn ==
    /\ rpc = "stickers"
    /\ clauseIdx > Len(sticker_clauses)
    /\ ret' = res
    /\ rpc' = "done"
    /\ UNCHANGED <<rules, query_clauses, sticker_clauses, res, clauseIdx, calls>>

ResolveStep == Partition \/ SeedQuery \/ StickerClause \/ ResolveReturn

\* The whole function on a rule list: its result, round-trips and whether it
\* returns at all.
RECURSIVE ResolveLoop(_, _, _)
ResolveLoop(clauses, running, i) ==
    IF clauses = <<>> THEN [ret |-> running, calls |-> <<>>, hang |-> FALSE]
    ELSE LET f == ClauseFetch(Head(clauses))
             kept == Retain(running, f.uris)
         IN  IF f.hang THEN [ret |-> {}, calls |-> Tagged(f.calls, i), hang |-> TRUE]
             ELSE IF ReturnsEarly(kept)
             THEN [ret |-> {}, calls |-> Tagged(f.calls, i), hang |-> FALSE]
             ELSE LET rest == ResolveLoop(Tail(clauses), kept, i + 1)
                  IN  [ret |-> rest.ret, calls |-> Tagged(f.calls, i) \o rest.calls,
                       hang |-> rest.hang]

resolve_dynamic_playlist_rules(rs) ==
    LET f == fetch_songs_by_query(BuildQuery(QueryClausesOf(rs)))
        loop == ResolveLoop(StickerClausesOf(rs), Range(f.songs), 1)
    IN  [ret |-> loop.ret, calls |-> Tagged(f.calls, 0) \o loop.calls, hang |-> loop.hang]

-----------------------------------------------------------------------------
(* SQLite store: tables, threads and transactions (cache/sqlite.rs) *)

\* Most closures pushed to the write thread pool in one run.
MaxJobs == 1

\* The thread of SQLITE_WRITE_THREADPOOL (ThreadPool::shared(Some(1))).
WriteWorker == "write_worker"

\* The threads that call store functions: the UI thread and the background
\* client thread.
Callers == {"main", "background"}

Threads == Callers \cup {WriteWorker}

\* format!("{prefix}:{key}") for prefix "dynamic_playlist".
DpKey(name) == <<"dynamic_playlist", name>>

\* A row of table queries: its name and the call that inserted it.
QueryRow(name, by) == [name |-> name, by |-> by]

\* A row of table images.
ImageRow(key, is_thumbnail, filename) ==
    [key |-> key, is_thumbnail |-> is_thumbnail, filename |-> filename]

\* The committed content of the tables, which a connection outside a
\* transaction reads.
Committed ==
    [queries |-> queries, images |-> images,
     query_results |-> query_results, last_refresh |-> last_refresh]

EmptyDb ==
    [queries |-> {}, images |-> {},
     query_results |-> [n \in {"a", "b"} |-> <<>>],
     last_refresh |-> [n \in {"a", "b"} |-> None]]

\* A thread that runs no store function. snapVer is the dbVersion of the
\* transaction's read snapshot, -1 while it has none; pre is the content of
\* that snapshot and work the snapshot with the transaction's own writes.
TxIdle ==
    [fn |-> "none", pc |-> "idle", name |-> "a", overwrite_name |-> None,
     key |-> DpKey("a"), is_thumbnail |-> FALSE, filename |-> "",
     songs |-> <<>>, snapVer |-> -1, pre |-> EmptyDb, work |-> EmptyDb,
     result |-> "none"]

StoreIdle ==
    /\ queries = {}
    /\ images = {}
    /\ dbVersion = 0
    /\ writer = "none"
    /\ tx = [t \in Threads |-> TxIdle]
    /\ jobs = <<>>
    /\ pushed = 0
    /\ faulted = FALSE

-----------------------------------------------------------------------------
(* Idle values of the paging loop, bind_by_name, the migration loop and the
   row-by-row view of query_results *)

PagingIdle ==
    [fn |-> "none", obj |-> "song", total |-> 0, curr_len |-> 0, more |-> FALSE,
     acc |-> <<>>, resp |-> "none", requests |-> 0, signals |-> <<>>]

BindingIdle ==
    [auto_refresh |-> "None", last_refresh |-> None, now |-> 0, info |-> "none",
     mode |-> "none"]

SchemaIdle ==
    [user_version |-> 4, albums |-> FALSE, pc |-> "off", objects |-> {}, batches |-> <<>>,
     reads |-> 0]

RoundtripIdle ==
    [rows |-> {}, name |-> "a", songs |-> <<>>, result |-> "none", got |-> <<>>,
     pc |-> "off"]

QueuingIdle ==
    [op |-> "none", uris |-> 0, recursive |-> FALSE, start_playing_pos |-> None,
     insert_pos |-> None, play |-> FALSE, inserted |-> 0, res |-> "Ok", pc |-> "off",
     callee |-> "none", msgs |-> <<>>]

AlbumMetaIdle ==
    [rows |-> {}, before |-> {}, work |-> {},
     album |-> [folder_uri |-> 1, mbid |-> None, title |-> 1, artist |-> None],
     pc |-> "off", result |-> "none", failed |-> FALSE]

EditorIdle == [orderings |-> <<>>, menu |-> {}, sensitive |-> FALSE, pc |-> "off"]

RecentIdle ==
    [history |-> <<>>, n |-> 0, dbErr |-> FALSE,
     faults |-> [gone |-> {}, findErr |-> {}, stickerErr |-> {}],
     to_fetch |-> <<>>, sent |-> <<>>, pc |-> "off"]

AuxIdle ==
    /\ editor = EditorIdle
    /\ recent = RecentIdle

SideIdle ==
    /\ paging = PagingIdle
    /\ binding = BindingIdle
    /\ schema = SchemaIdle
    /\ roundtrip = RoundtripIdle
    /\ queuing = QueuingIdle
    /\ albumMeta = AlbumMetaIdle
    /\ AuxIdle

-----------------------------------------------------------------------------
(* Initial values; the resolver and the comparator on their own *)

CmpIdle ==
    /\ cmpOrd = <<>>
    /\ cmpA = [f \in Fields |-> BlankValue(f)]
    /\ cmpB = [f \in Fields |-> BlankValue(f)]
    /\ cmpRes = "off"

\* What the server does to the lookups of one hydration: the URIs it no longer
\* has, the URI whose song lookup fails, the URIs whose sticker lookup fails.
NoFaults == [gone |-> {}, findErr |-> {}, stickerErr |-> {}]

\* No call of fetch_songs_by_uri yet.
NoHydration == [uris |-> <<>>, fetch_stickers |-> FALSE, faults |-> NoFaults]

FetchIdle ==
    /\ pc = "off"
    /\ dp = [name |-> "a", rules |-> <<>>, ordering |-> <<>>, limit |-> None]
    /\ cache = FALSE
    /\ fn = "none"
    /\ tagtypes = {}
    /\ songs_stickers = <<>>
    /\ sent = <<>>
    /\ hydration = NoHydration
    /\ cacheWrite = "none"

CacheIdle ==
    /\ query_results = [n \in {"a", "b"} |-> <<>>]
    /\ last_refresh = [n \in {"a", "b"} |-> None]

RemoteIdle ==
    /\ remote = [findErrAt |-> -1, stickerErrAt |-> -1, playlistErr |-> FALSE, v24 |-> FALSE]
    /\ now = 0

\* The wall-clock times tried.
NowValues == {10}

ResolveInit ==
    /\ StoreIdle
    /\ SideIdle
    /\ CmpIdle
    /\ FetchIdle
    /\ CacheIdle
    /\ remote \in Remotes
    /\ now \in NowValues
    /\ rules \in RuleLists(MaxRules)
    /\ rpc = "start"
    /\ query_clauses = <<>>
    /\ sticker_clauses = <<>>
    /\ res = {}
    /\ clauseIdx = 0
    /\ calls = <<>>
    /\ ret = {}

ResolveNext ==
    ResolveStep /\ UNCHANGED <<cmpVars, remoteVars, fetchVars, cacheVars, storeVars, sideVars>>

SpecResolve == ResolveInit /\ [][ResolveNext]_vars

CmpInit ==
    /\ StoreIdle
    /\ SideIdle
    /\ RemoteIdle
    /\ ResolveIdle
    /\ FetchIdle
    /\ CacheIdle
    /\ cmpOrd \in OrderingLists
    /\ cmpA \in PairsOver(FieldsRead(cmpOrd))
    /\ cmpB \in PairsOver(FieldsRead(cmpOrd))
    /\ cmpRes = "none"

\* One call of the compiled comparator.
Compare ==
    /\ cmpRes = "none"
    /\ cmpRes' = build_comparator(cmpOrd, cmpA, cmpB)
    /\ UNCHANGED <<cmpOrd, cmpA, cmpB>>

CmpNext ==
    Compare /\ UNCHANGED <<remoteVars, resolveVars, fetchVars, cacheVars, storeVars, sideVars>>

SpecCmp == CmpInit /\ [][CmpNext]_vars

-----------------------------------------------------------------------------
(* Fetch orchestrator: fetch_dynamic_playlist, fetch_dynamic_playlist_cached *)

\* Every tag type the server can report.
AllTags == {"album", "artist", "albumartist", "track", "originaldate"}

\* Lines 1256-1265: the tag types enabled for display and for the ordering.
TagsNeeded(ordering) ==
    {"album", "artist", "albumartist"}
      \cup (IF \E i \in 1..Len(ordering) : ordering[i] = "Track" THEN {"track"} ELSE {})
      \cup (IF \E i \in 1..Len(ordering) :
                  ordering[i] \in {"AscReleaseDate", "DescReleaseDate"}
            THEN {"originaldate"} ELSE {})

\* Track number tag of a song on the server; song 3 has none.
SongTrack(u) == IF u = 3 THEN -1 ELSE u

\* The (SongInfo, Stickers) pair of song u as hydrated under the enabled tags.
PairOf(u, tags) ==
    [album_title |-> IF "album" \in tags THEN Some(SongAlbum(u)) ELSE None,
     track |-> IF "track" \in tags THEN SongTrack(u) ELSE -1,
     release_date |-> None,
     artist_tag |-> None,
     rating |-> SongRating(u),
     last_modified |-> Some(SongMtime(u)),
     play_count |-> None,
     skip_count |-> None]

HydrateFaults(us) ==
    {NoFaults}
      \cup {[gone |-> {u}, findErr |-> {}, stickerErr |-> {}] : u \in us}
      \cup {[gone |-> {}, findErr |-> {u}, stickerErr |-> {}] : u \in us}
      \cup {[gone |-> {}, findErr |-> {}, stickerErr |-> {u}] : u \in us}

\* A hydration that returns the songs in the reverse of the order asked: C31
\* must not hold of it.
FetchSongsReversed(us, fetch_stickers, faults) ==
    [ok |-> \A i \in 1..Len(us) : us[i] \notin faults.findErr,
     found |-> IF \E i \in 1..Len(us) : us[i] \in faults.findErr THEN <<>>
               ELSE [i \in 1..Len(us) |->
                       [uri |-> us[Len(us) + 1 - i],
                        stickers |-> fetch_stickers
                                       /\ us[Len(us) + 1 - i] \notin faults.stickerErr]]]

\* fetch_songs_by_uri: Err on the first failing song lookup, otherwise the
\* songs found, each with its stickers (None when the sticker lookup failed or
\* stickers were not asked for).
RECURSIVE fetch_songs_by_uri(_, _, _)
fetch_songs_by_uri(us, fetch_stickers, faults) ==
    IF us = <<>> THEN [ok |-> TRUE, found |-> <<>>]
    ELSE LET u == Head(us)
         IN  IF u \in faults.findErr THEN [ok |-> FALSE, found |-> <<>>]
             ELSE LET rest == fetch_songs_by_uri(Tail(us), fetch_stickers, faults)
                      this == IF u \in faults.gone THEN <<>>
                              ELSE << [uri |-> u,
                                       stickers |-> fetch_stickers /\ u \notin faults.stickerErr] >>
                  IN  [ok |-> rest.ok, found |-> IF rest.ok THEN this \o rest.found ELSE <<>>]

\* The orders in which the resolved HashSet is turned into a Vec: iteration
\* order is arbitrary; the increasing and the decreasing order are tried.
Reversed(list) == [i \in 1..Len(list) |-> list[Len(list) + 1 - i]]
HashOrders(S) == {SortedSeq(S), Reversed(SortedSeq(S))}

\* An insertion that also moves x before the elements it compares Equal to
\* (an unstable sort): C26 must not hold of it.
RECURSIVE InsertTailUnstable(_, _, _, _, _)
InsertTailUnstable(sorted, j, x, ordering, tags) ==
    IF j = 0 THEN [ok |-> TRUE, list |-> <<x>> \o sorted]
    ELSE LET c == build_comparator(ordering, PairOf(x, tags), PairOf(sorted[j], tags))
         IN  IF c = "unreachable" THEN [ok |-> FALSE, list |-> <<>>]
             ELSE IF c \in {"Less", "Equal"}
                  THEN InsertTailUnstable(sorted, j - 1, x, ordering, tags)
             ELSE [ok |-> TRUE,
                   list |-> SubSeq(sorted, 1, j) \o <<x>> \o SubSeq(sorted, j + 1, Len(sorted))]

\* Insertion of x into the sorted prefix, scanning from its end while x is
\* Less than the element looked at (slice::sort_by is stable).
RECURSIVE InsertTail(_, _, _, _, _)
InsertTail(sorted, j, x, ordering, tags) ==
    IF j = 0 THEN [ok |-> TRUE, list |-> <<x>> \o sorted]
    ELSE LET c == build_comparator(ordering, PairOf(x, tags), PairOf(sorted[j], tags))
         IN  IF c = "unreachable" THEN [ok |-> FALSE, list |-> <<>>]
             ELSE IF c = "Less" THEN InsertTail(sorted, j - 1, x, ordering, tags)
             ELSE [ok |-> TRUE,
                   list |-> SubSeq(sorted, 1, j) \o <<x>> \o SubSeq(sorted, j + 1, Len(sorted))]

\* songs_stickers.sort_by(cmp_func); ok is FALSE when the comparator panics.
RECURSIVE SortBy(_, _, _)
SortBy(list, ordering, tags) ==
    IF Len(list) <= 1 THEN [ok |-> TRUE, list |-> list]
    ELSE LET front == SortBy(SubSeq(list, 1, Len(list) - 1), ordering, tags)
         IN  IF ~front.ok THEN front
             ELSE InsertTail(front.list, Len(front.list), list[Len(list)], ordering, tags)

\* A truncation that was left out: C23 must not hold of it.
TruncateNothing(list, limit) == list

\* songs_stickers.truncate(limit) when a limit is set.
Truncate(list, limit) ==
    IF limit = None THEN list ELSE SubSeq(list, 1, Min(limit[1], Len(list)))

\* A loop whose next window starts one song late: C22 must not hold of it.
RECURSIVE BatchesSkipping(_, _)
BatchesSkipping(name, list) ==
    IF list = <<>> THEN <<>>
    ELSE LET next_len == Min(BATCH_SIZE, Len(list))
         IN  <<[name |-> name, batch |-> SubSeq(list, 1, next_len)]>>
               \o BatchesSkipping(name, SubSeq(list, next_len + 2, Len(list)))

\* The batches of the while loop at lines 1287-1295.
RECURSIVE Batches(_, _)
Batches(name, list) ==
    IF list = <<>> THEN <<>>
    ELSE LET next_len == Min(BATCH_SIZE, Len(list))
         IN  <<[name |-> name, batch |-> SubSeq(list, 1, next_len)]>>
               \o Batches(name, SubSeq(list, next_len + 1, Len(list)))

\* The end-of-result message.
Sentinel(name) == [name |-> name, batch |-> <<>>]

\* sqlite::cache_dynamic_playlist_results as one transaction. outcome "ok":
\* committed; "error": begin, delete, an insert or the commit failed and the
\* transaction was rolled back; "update_error": the update of last_refresh
\* failed, its result is not looked at and the rest is committed.
cache_dynamic_playlist_results(name, us, outcome) ==
    CASE outcome = "ok" ->
            [results |-> [query_results EXCEPT ![name] = us],
             refresh |-> [last_refresh EXCEPT ![name] = Some(now)]]
      [] outcome = "update_error" ->
            [results |-> [query_results EXCEPT ![name] = us], refresh |-> last_refresh]
      [] OTHER -> [results |-> query_results, refresh |-> last_refresh]

DbOutcomes == {"ok", "error", "update_error"}

\* The rule lists of the dynamic playlists fetched.
DpRuleLists ==
    {<<>>,
     << <<"Sticker", "song", "rating", "IntGreaterThan", 0>> >>,
     << <<"Sticker", "song", "rating", "IntLessThan", 0>> >>,
     << <<"Sticker", "album", "rating", "IntGreaterThan", 1>> >>,
     << <<"Sticker", "playlist", "rating", "IntGreaterThan", 0>> >>,
     << <<"Query", "Album", 1>>, <<"Sticker", "song", "rating", "IntGreaterThan", 1>> >>}

DpNames == {"a", "b"}

DpOrderings == {<<>>, <<"DescRating">>, <<"Track">>, <<"Random">>}

DpLimits == {None, Some(0), Some(BATCH_SIZE + 1)}

DynamicPlaylists ==
    [name : {"a"}, rules : DpRuleLists, ordering : DpOrderings, limit : DpLimits]

\* The condition of line 1272: an empty song list is neither sorted, cached
\* nor streamed.
HasSongs(list) == list # <<>>

\* Line 1249: fetch_dynamic_playlist is called; tag reporting is cleared and,
\* when that worked, the resolution starts.
FetchStart ==
    /\ pc = "idle"
    /\ \E d \in DynamicPlaylists, c \in BOOLEAN, clearOk \in BOOLEAN :
          /\ dp' = d
          /\ cache' = c
          /\ fn' = "fetch_dynamic_playlist"
          /\ rules' = d.rules
          /\ IF clearOk
             THEN /\ tagtypes' = {}
                  /\ pc' = "resolving"
                  /\ rpc' = "start"
             ELSE /\ pc' = "done"
                  /\ UNCHANGED <<tagtypes, rpc>>
    /\ UNCHANGED <<query_clauses, sticker_clauses, res, clauseIdx, calls, ret,
                   songs_stickers, sent, cacheWrite, hydration, cacheVars>>

\* Line 1252: the steps of resolve_dynamic_playlist_rules.
Resolving ==
    /\ pc = "resolving"
    /\ ResolveStep
    /\ UNCHANGED <<fetchVars, cacheVars>>

\* Lines 1266-1271: enable the needed tags, hydrate every URI with stickers.
Hydrate ==
    /\ pc = "resolving"
    /\ rpc = "done"
    /\ \E enableOk \in BOOLEAN, order \in HashOrders(ret), faults \in HydrateFaults(ret) :
          LET h == fetch_songs_by_uri(order, TRUE, faults)
          IN  IF ~enableOk
              THEN /\ pc' = "panicked"          \* expect() on tagtypes_enable
                   /\ UNCHANGED <<tagtypes, songs_stickers, hydration>>
              ELSE /\ tagtypes' = TagsNeeded(dp.ordering)
                   /\ hydration' = [uris |-> order, fetch_stickers |-> TRUE, faults |-> faults]
                   /\ IF ~h.ok
                      THEN /\ pc' = "restore"   \* the if-let does not match
                           /\ UNCHANGED songs_stickers
                      ELSE IF \E i \in 1..Len(h.found) : ~h.found[i].stickers
                      THEN /\ pc' = "panicked"  \* unwrap() of a None
                           /\ UNCHANGED songs_stickers
                      ELSE /\ songs_stickers' = [i \in 1..Len(h.found) |-> h.found[i].uri]
                           /\ pc' = "deliver"
    /\ UNCHANGED <<dp, cache, fn, sent, cacheWrite, resolveVars, cacheVars>>

\* A delivery that writes the cache whatever the cache argument says: C37
\* must not hold of it.
DeliverAlwaysCaching ==
    /\ pc = "deliver"
    /\ IF HasSongs(songs_stickers)
       THEN LET sorted == SortBy(songs_stickers, dp.ordering, tagtypes)
                final == Truncate(sorted.list, dp.limit)
            IN  IF ~sorted.ok
                THEN /\ pc' = "panicked"
                     /\ UNCHANGED <<songs_stickers, sent, cacheWrite, cacheVars>>
                ELSE /\ songs_stickers' = final
                     /\ \E outcome \in DbOutcomes :
                           LET w == cache_dynamic_playlist_results(dp.name, final, outcome)
                           IN  /\ query_results' = w.results
                               /\ last_refresh' = w.refresh
                               /\ cacheWrite' = outcome
                     /\ sent' = sent \o Batches(dp.name, final) \o <<Sentinel(dp.name)>>
                     /\ pc' = "restore"
       ELSE /\ sent' = sent \o <<Sentinel(dp.name)>>
            /\ pc' = "restore"
            /\ UNCHANGED <<songs_stickers, cacheWrite, cacheVars>>
    /\ UNCHANGED <<dp, cache, fn, tagtypes, hydration, resolveVars>>

\* Lines 1272-1301: sort, truncate, cache, stream the batches, end with the
\* empty batch.
Deliver ==
    /\ pc = "deliver"
    /\ IF HasSongs(songs_stickers)
       THEN LET sorted == SortBy(songs_stickers, dp.ordering, tagtypes)
                final == Truncate(sorted.list, dp.limit)
            IN  IF ~sorted.ok
                THEN /\ pc' = "panicked"        \* unreachable!() in the comparator
                     /\ UNCHANGED <<songs_stickers, sent, cacheWrite, cacheVars>>
                ELSE /\ songs_stickers' = final
                     /\ IF cache
                        THEN \E outcome \in DbOutcomes :
                                LET w == cache_dynamic_playlist_results(dp.name, final, outcome)
                                IN  /\ query_results' = w.results
                                    /\ last_refresh' = w.refresh
                                    /\ cacheWrite' = outcome
                        ELSE UNCHANGED <<cacheWrite, cacheVars>>
                     /\ sent' = sent \o Batches(dp.name, final) \o <<Sentinel(dp.name)>>
                     /\ pc' = "restore"
       ELSE /\ sent' = sent \o <<Sentinel(dp.name)>>
            /\ pc' = "restore"
            /\ UNCHANGED <<songs_stickers, cacheWrite, cacheVars>>
    /\ UNCHANGED <<dp, cache, fn, tagtypes, hydration, resolveVars>>

\* Line 1303: restore full tag reporting.
RestoreTags ==
    /\ pc = "restore"
    /\ \E allOk \in BOOLEAN :
          IF allOk
          THEN /\ tagtypes' = AllTags
               /\ pc' = "done"
          ELSE /\ pc' = "panicked"              \* expect() on tagtypes_all
               /\ UNCHANGED tagtypes
    /\ UNCHANGED <<dp, cache, fn, songs_stickers, sent, cacheWrite, hydration, resolveVars,
                   cacheVars>>

\* fetch_dynamic_playlist_cached: read the cached URIs, hydrate them without
\* stickers, stream them and end with the empty batch; nothing is sent when
\* the read or a song lookup fails.
FetchCached ==
    /\ pc = "idle"
    /\ \E name \in DpNames, readOk \in BOOLEAN :
       \E faults \in HydrateFaults(Range(query_results[name])) :
          LET h == fetch_songs_by_uri(query_results[name], FALSE, faults)
              songs == [i \in 1..Len(h.found) |-> h.found[i].uri]
          IN  /\ dp' = [dp EXCEPT !.name = name]
              /\ fn' = "fetch_dynamic_playlist_cached"
              /\ hydration' = IF readOk
                              THEN [uris |-> query_results[name], fetch_stickers |-> FALSE,
                                    faults |-> faults]
                              ELSE hydration
              /\ IF readOk /\ h.ok
                 THEN /\ songs_stickers' = songs
                      /\ sent' = sent \o Batches(name, songs) \o <<Sentinel(name)>>
                 ELSE UNCHANGED <<songs_stickers, sent>>
              /\ pc' = "done"
    /\ UNCHANGED <<cache, tagtypes, cacheWrite, resolveVars, cacheVars>>

\* The cached rows before the fetch: none, or the rows of an earlier resolution.
CacheStates ==
    {[n \in DpNames |-> <<>>], [n \in DpNames |-> IF n = "a" THEN <<4, 1, 3>> ELSE <<2>>]}

Init ==
    /\ StoreIdle
    /\ SideIdle
    /\ CmpIdle
    /\ remote \in Remotes
    /\ now \in NowValues
    /\ ResolveIdle
    /\ pc = "idle"
    /\ dp = [name |-> "a", rules |-> <<>>, ordering |-> <<>>, limit |-> None]
    /\ cache = FALSE
    /\ fn = "none"
    /\ tagtypes = AllTags
    /\ songs_stickers = <<>>
    /\ sent = <<>>
    /\ hydration = NoHydration
    /\ cacheWrite = "none"
    /\ query_results \in CacheStates
    /\ last_refresh = [n \in DpNames |-> None]

Next ==
    \/ FetchStart /\ UNCHANGED <<cmpVars, remoteVars, storeVars, sideVars>>
    \/ Resolving /\ UNCHANGED <<cmpVars, remoteVars, storeVars, sideVars>>
    \/ Hydrate /\ UNCHANGED <<cmpVars, remoteVars, storeVars, sideVars>>
    \/ Deliver /\ UNCHANGED <<cmpVars, remoteVars, storeVars, sideVars>>
    \/ RestoreTags /\ UNCHANGED <<cmpVars, remoteVars, storeVars, sideVars>>
    \/ FetchCached /\ UNCHANGED <<cmpVars, remoteVars, storeVars, sideVars>>

Spec == Init /\ [][Next]_vars

-----------------------------------------------------------------------------
(* SQLite store: deferred transactions of the pooled connections, WAL mode *)

\* What thread t's connection reads: its snapshot with its own writes, or the
\* committed tables while its transaction has neither read nor written.
View(t) == IF tx[t].snapVer = -1 THEN Committed ELSE tx[t].work

\* A write statement of t holds, or can take, the write lock: nobody else
\* holds it and t's snapshot, if it has one, is the latest commit.
CanWrite(t) ==
    \/ writer = t
    \/ writer = "none" /\ tx[t].snapVer \in {-1, dbVersion}

\* SQLITE_BUSY_SNAPSHOT: t read before another connection committed and now
\* wants to write.
BusySnapshot(t) == writer # t /\ tx[t].snapVer \notin {-1, dbVersion}

\* The record of thread t once its store function has returned r. The pool
\* thread goes back to waiting for closures.
Returned(t, r) ==
    IF t = WriteWorker THEN TxIdle ELSE [tx[t] EXCEPT !.pc = "done", !.result = r]

\* The transaction is rolled back (explicitly, or by dropping it on `?`) and
\* the function returns r.
Rollback(t, r) ==
    /\ tx' = [tx EXCEPT ![t] = Returned(t, r)]
    /\ writer' = IF writer = t THEN "none" ELSE writer
    /\ UNCHANGED <<queries, images, query_results, last_refresh, dbVersion, jobs, pushed>>

\* Why a write statement fails: the snapshot is stale, or a reason of the
\* environment (the busy timeout ran out while another connection kept the
\* write lock, an I/O error).
WriteFails(t) ==
    \/ BusySnapshot(t) /\ UNCHANGED faulted
    \/ faulted' = TRUE

\* A statement of t that needs the write lock gets it and leaves newWork in
\* t's transaction.
Locked(t, newWork, nextPc) ==
    /\ CanWrite(t)
    /\ tx' = [tx EXCEPT ![t] =
                [tx[t] EXCEPT !.snapVer = dbVersion,
                              !.pre = IF tx[t].snapVer = -1 THEN Committed ELSE tx[t].pre,
                              !.work = newWork,
                              !.pc = nextPc]]
    /\ writer' = t
    /\ UNCHANGED <<queries, images, query_results, last_refresh, dbVersion, jobs, pushed>>

\* A write statement of t succeeds.
Wrote(t, newWork, nextPc) == Locked(t, newWork, nextPc) /\ UNCHANGED faulted

\* A read statement of t succeeds; the first one takes the snapshot.
ReadDone(t, nextPc) ==
    /\ tx' = [tx EXCEPT ![t] =
                [tx[t] EXCEPT !.snapVer = IF tx[t].snapVer = -1 THEN dbVersion
                                          ELSE tx[t].snapVer,
                              !.pre = IF tx[t].snapVer = -1 THEN Committed ELSE tx[t].pre,
                              !.work = View(t),
                              !.pc = nextPc]]
    /\ UNCHANGED <<queries, images, query_results, last_refresh, dbVersion, writer, jobs,
                   pushed, faulted>>

\* tx.commit(): the transaction's writes become the committed tables at once.
Commit(t) ==
    /\ tx[t].pc = "commit"
    /\ \/ /\ queries' = tx[t].work.queries
          /\ images' = tx[t].work.images
          /\ query_results' = tx[t].work.query_results
          /\ last_refresh' = tx[t].work.last_refresh
          /\ dbVersion' = dbVersion + 1
          /\ writer' = "none"
          /\ tx' = [tx EXCEPT ![t] = Returned(t, "Ok")]
          /\ UNCHANGED <<jobs, pushed, faulted>>
       \/ faulted' = TRUE /\ Rollback(t, "DbError")

-----------------------------------------------------------------------------
(* insert_dynamic_playlist *)

\* The overwrite_name arguments tried.
OverwriteNames == {None} \cup {Some(n) : n \in {"a", "b"}}

\* Lines 807-809: the caller's thread takes a pooled connection and begins a
\* deferred transaction, which takes no lock yet.
InsertBegin(t) ==
    /\ t \in Callers
    /\ tx[t].pc = "idle"
    /\ \E name \in {"a", "b"}, overwrite_name \in OverwriteNames :
         tx' = [tx EXCEPT ![t] =
                  [TxIdle EXCEPT !.fn = "insert_dynamic_playlist",
                                 !.name = name,
                                 !.overwrite_name = overwrite_name,
                                 !.pc = IF overwrite_name # None THEN "delete"
                                        ELSE "count"]]
    /\ UNCHANGED <<queries, images, query_results, last_refresh, dbVersion, writer, jobs,
                   pushed, faulted>>

\* Lines 813-815: delete from queries where name = to_overwrite.
InsertDeleteOld(t) ==
    /\ tx[t].fn = "insert_dynamic_playlist"
    /\ tx[t].pc = "delete"
    /\ LET to_overwrite == tx[t].overwrite_name[1]
           v == View(t)
       IN  \/ Wrote(t, [v EXCEPT !.queries = {r \in v.queries : r.name # to_overwrite}],
                    IF to_overwrite # tx[t].name THEN "migrate" ELSE "count")
           \/ WriteFails(t) /\ Rollback(t, "DbError")

\* The update images set key = ?1 where key = ?2 bound to params![p1, p2].
UpdateImagesKey(imgs, p1, p2) ==
    {IF r.key = p2 THEN [r EXCEPT !.key = p1] ELSE r : r \in imgs}

\* The update would leave two rows with one (key, is_thumbnail): the unique
\* index image_key refuses it.
KeyCollision(imgs, p1, p2) ==
    \E r1, r2 \in imgs :
        r1.key = p2 /\ r2.key = p1 /\ p1 # p2 /\ r1.is_thumbnail = r2.is_thumbnail

\* Lines 818-828: the update of the image key, with ?1 bound to
\* "dynamic_playlist:{to_overwrite}" and ?2 to "dynamic_playlist:{dp.name}".
InsertMigrateImage(t) ==
    /\ tx[t].fn = "insert_dynamic_playlist"
    /\ tx[t].pc = "migrate"
    /\ LET p1 == DpKey(tx[t].overwrite_name[1])
           p2 == DpKey(tx[t].name)
           v == View(t)
       IN  \/ /\ ~KeyCollision(v.images, p1, p2)
              /\ Wrote(t, [v EXCEPT !.images = UpdateImagesKey(v.images, p1, p2)], "count")
           \/ /\ KeyCollision(v.images, p1, p2)
              /\ Rollback(t, "DbError")
              /\ UNCHANGED faulted
           \/ WriteFails(t) /\ Rollback(t, "DbError")

\* A check that never finds the name: C19 must not hold of it.
NameNeverTaken(count) == FALSE

\* Line 840: if count > 0.
NameTaken(count) == count > 0

\* Lines 834-847: select count(name) from queries where name = dp.name.
InsertCountCheck(t) ==
    /\ tx[t].fn = "insert_dynamic_playlist"
    /\ tx[t].pc = "count"
    /\ LET count == Cardinality({r \in View(t).queries : r.name = tx[t].name})
       IN  \/ NameTaken(count) /\ Rollback(t, "KeyAlreadyExists") /\ UNCHANGED faulted
           \/ ~NameTaken(count) /\ ReadDone(t, "insert")
           \/ faulted' = TRUE /\ Rollback(t, "DbError")

\* Lines 857-876: insert into queries. The row cannot be there: the count was
\* taken from the same snapshot.
InsertRow(t) ==
    /\ tx[t].fn = "insert_dynamic_playlist"
    /\ tx[t].pc = "insert"
    /\ LET v == View(t)
       IN  \/ Wrote(t, [v EXCEPT !.queries = v.queries \cup {QueryRow(tx[t].name, t)}],
                    "commit")
           \/ WriteFails(t) /\ Rollback(t, "DbError")

-----------------------------------------------------------------------------
(* register_image_key, unregister_image_key, cache_dynamic_playlist_results *)

\* The closures callers push to the write thread pool.
ImageJobs ==
    {[fn |-> "register_image_key", key |-> DpKey("a"), is_thumbnail |-> FALSE,
      filename |-> "f2"],
     [fn |-> "unregister_image_key", key |-> DpKey("a"), is_thumbnail |-> FALSE,
      filename |-> ""]}

\* Lines 615 and 657: SQLITE_WRITE_THREADPOOL.push; the caller gets a handle
\* and goes on.
PushImageJob(t) ==
    /\ t \in Callers
    /\ tx[t].pc \in {"idle", "done"}
    /\ pushed < MaxJobs
    /\ \E job \in ImageJobs : jobs' = Append(jobs, job)
    /\ pushed' = pushed + 1
    /\ UNCHANGED <<queries, images, query_results, last_refresh, dbVersion, writer, tx,
                   faulted>>

\* The pool's thread takes the next closure and begins its transaction.
WorkerTake ==
    /\ tx[WriteWorker].pc = "idle"
    /\ jobs # <<>>
    /\ tx' = [tx EXCEPT ![WriteWorker] =
                [TxIdle EXCEPT !.fn = Head(jobs).fn,
                               !.key = Head(jobs).key,
                               !.is_thumbnail = Head(jobs).is_thumbnail,
                               !.filename = Head(jobs).filename,
                               !.pc = "img_delete"]]
    /\ jobs' = Tail(jobs)
    /\ UNCHANGED <<queries, images, query_results, last_refresh, dbVersion, writer, pushed,
                   faulted>>

\* Lines 625-629 and 664-668: delete from images where key and is_thumbnail.
ImageDelete(t) ==
    /\ tx[t].pc = "img_delete"
    /\ LET v == View(t)
           kept == {r \in v.images :
                        ~(r.key = tx[t].key /\ r.is_thumbnail = tx[t].is_thumbnail)}
       IN  \/ Wrote(t, [v EXCEPT !.images = kept],
                    IF tx[t].fn = "register_image_key" THEN "img_insert" ELSE "commit")
           \/ WriteFails(t) /\ Rollback(t, "DbError")

\* Lines 631-646: insert into images.
ImageInsert(t) ==
    /\ tx[t].pc = "img_insert"
    /\ LET v == View(t)
           row == ImageRow(tx[t].key, tx[t].is_thumbnail, tx[t].filename)
       IN  \/ Wrote(t, [v EXCEPT !.images = v.images \cup {row}], "commit")
           \/ WriteFails(t) /\ Rollback(t, "DbError")

\* The song lists cached.
CachedSongLists == {<<>>, <<3, 1>>}

\* Lines 886-887, called at client/background.rs:1281 on the background
\* client's thread.
CacheBegin(t) ==
    /\ t = "background"
    /\ tx[t].pc = "idle"
    /\ \E name \in {"a", "b"}, songs \in CachedSongLists :
         tx' = [tx EXCEPT ![t] =
                  [TxIdle EXCEPT !.fn = "cache_dynamic_playlist_results",
                                 !.name = name, !.songs = songs, !.pc = "qr_delete"]]
    /\ UNCHANGED <<queries, images, query_results, last_refresh, dbVersion, writer, jobs,
                   pushed, faulted>>

\* Lines 891-894: delete from query_results where query_name = name.
CacheDeletePrevious(t) ==
    /\ tx[t].pc = "qr_delete"
    /\ LET v == View(t)
       IN  \/ Wrote(t, [v EXCEPT !.query_results[tx[t].name] = <<>>],
                    IF tx[t].songs = <<>> THEN "qr_update" ELSE "qr_insert")
           \/ WriteFails(t) /\ Rollback(t, "DbError")

\* A loop left after its first insert: C27 must not hold of it.
CacheInsertFirstSong(t) ==
    /\ tx[t].pc = "qr_insert"
    /\ LET v == View(t)
       IN  \/ Wrote(t, [v EXCEPT !.query_results[tx[t].name] = Append(@, tx[t].songs[1])],
                    "qr_update")
           \/ WriteFails(t) /\ Rollback(t, "DbError")

\* Lines 895-903: one turn of the for loop, insert into query_results.
CacheInsertSong(t) ==
    /\ tx[t].pc = "qr_insert"
    /\ LET v == View(t)
           i == Len(v.query_results[tx[t].name]) + 1
       IN  \/ Wrote(t, [v EXCEPT !.query_results[tx[t].name] = Append(@, tx[t].songs[i])],
                    IF i = Len(tx[t].songs) THEN "qr_update" ELSE "qr_insert")
           \/ WriteFails(t) /\ Rollback(t, "DbError")

\* Lines 904-911: update queries set last_refresh; the Result is dropped, so
\* the function goes on to the commit when the statement fails.
CacheUpdateRefresh(t) ==
    /\ tx[t].pc = "qr_update"
    /\ LET v == View(t)
           named == \E r \in v.queries : r.name = tx[t].name
       IN  \/ Wrote(t, IF named THEN [v EXCEPT !.last_refresh[tx[t].name] = Some(now)]
                       ELSE v, "commit")
           \/ faulted' = TRUE /\ Locked(t, v, "commit")

-----------------------------------------------------------------------------
(* The store used by several threads *)

\* The rows of table queries before the calls.
QueriesStates == {{}, {QueryRow("a", "init")}}

\* The rows of table images before the calls.
ImagesStates ==
    {{},
     {ImageRow(DpKey("a"), FALSE, "f1")},
     {ImageRow(DpKey("b"), FALSE, "f1")},
     {ImageRow(DpKey("a"), FALSE, "f1"), ImageRow(DpKey("b"), FALSE, "f3")}}

StoreInit ==
    /\ CmpIdle
    /\ SideIdle
    /\ RemoteIdle
    /\ ResolveIdle
    /\ FetchIdle
    /\ CacheIdle
    /\ queries \in QueriesStates
    /\ images \in ImagesStates
    /\ dbVersion = 0
    /\ writer = "none"
    /\ tx = [t \in Threads |-> TxIdle]
    /\ jobs = <<>>
    /\ pushed = 0
    /\ faulted = FALSE

StoreOthers == <<cmpVars, remoteVars, resolveVars, fetchVars, sideVars>>

StoreNext ==
    \/ \E t \in Threads : InsertBegin(t) /\ UNCHANGED StoreOthers
    \/ \E t \in Threads : InsertDeleteOld(t) /\ UNCHANGED StoreOthers
    \/ \E t \in Threads : InsertMigrateImage(t) /\ UNCHANGED StoreOthers
    \/ \E t \in Threads : InsertCountCheck(t) /\ UNCHANGED StoreOthers
    \/ \E t \in Threads : InsertRow(t) /\ UNCHANGED StoreOthers
    \/ \E t \in Threads : Commit(t) /\ UNCHANGED StoreOthers
    \/ \E t \in Threads : PushImageJob(t) /\ UNCHANGED StoreOthers
    \/ WorkerTake /\ UNCHANGED StoreOthers
    \/ \E t \in Threads : ImageDelete(t) /\ UNCHANGED StoreOthers
    \/ \E t \in Threads : ImageInsert(t) /\ UNCHANGED StoreOthers
    \/ \E t \in Threads : CacheBegin(t) /\ UNCHANGED StoreOthers
    \/ \E t \in Threads : CacheDeletePrevious(t) /\ UNCHANGED StoreOthers
    \/ \E t \in Threads : CacheInsertSong(t) /\ UNCHANGED StoreOthers
    \/ \E t \in Threads : CacheUpdateRefresh(t) /\ UNCHANGED StoreOthers

SpecStore == StoreInit /\ [][StoreNext]_vars

-----------------------------------------------------------------------------
(* Properties of the rule resolver *)

\* The match set of a sticker clause computed on its own.
MatchSet(clause) == ClauseFetch(clause).uris

\* The match set of the combined attribute query of a rule list.
SeedSet(rs) == Range(fetch_songs_by_query(BuildQuery(QueryClausesOf(rs))).songs)

\* The songs of the seed set that are in the match set of every sticker clause.
Intersection(rs) ==
    {u \in SeedSet(rs) :
        \A i \in 1..Len(StickerClausesOf(rs)) : u \in MatchSet(StickerClausesOf(rs)[i])}

RulePermutations(n) == {p \in [1..n -> 1..n] : \A i, j \in 1..n : p[i] = p[j] => i = j}

Permuted(rs, p) == [i \in 1..Len(rs) |-> rs[p[i]]]

\* C1: when resolve_dynamic_playlist_rules returns, its result is the
\* intersection of the combined query's match set with the match set of every
\* sticker clause, each computed on its own, and every permutation of the rule
\* list that returns gives the same set.
C1_IntersectionCommutes ==
    rpc = "done" =>
        /\ ret = Intersection(rules)
        /\ \A p \in RulePermutations(Len(rules)) :
              LET other == resolve_dynamic_playlist_rules(Permuted(rules, p))
              IN  ~other.hang => other.ret = ret

\* C1 witness: two sticker clauses with different match sets were intersected
\* into a non-empty result smaller than either.
C1_Witness ==
    /\ rpc = "done"
    /\ Len(sticker_clauses) = 2
    /\ ret # {}
    /\ ret # MatchSet(sticker_clauses[1])
    /\ ret # MatchSet(sticker_clauses[2])

\* The window starts of the sticker searches made for sticker clause i.
RECURSIVE StickerWindows(_, _)
StickerWindows(cs, i) ==
    IF cs = <<>> THEN <<>>
    ELSE (IF Head(cs).op = "find_sticker_op" /\ Head(cs).clause = i
          THEN <<Head(cs).start>> ELSE <<>>) \o StickerWindows(Tail(cs), i)

\* The sticker clauses whose match set has been collected completely.
ClausesFetched ==
    IF rpc \in {"stickers", "done"} /\ remote.stickerErrAt = -1
    THEN {i \in 1..Len(sticker_clauses) :
            i < clauseIdx \/ (rpc = "done" /\ i = clauseIdx)}
    ELSE {}

\* C2: the sticker searches of a clause ask for non-overlapping windows that
\* start at 0 and at multiples of BATCH_SIZE, none is skipped before the
\* server's matches are exhausted, and so for a song clause every URI the
\* server reports is in the clause's match set.
C2_ConsecutiveWindows ==
    \A i \in ClausesFetched :
        LET w == StickerWindows(calls, i)
            c == sticker_clauses[i]
            reported == StickerMatches(c[1], c[2], c[3], StickerRhs(c))
        IN  /\ w # <<>> /\ w[1] = 0
            /\ \A k \in 1..Len(w) : w[k] % BATCH_SIZE = 0
            /\ \A k \in 2..Len(w) : w[k] > w[k - 1]
            /\ \A pos \in 0..(Len(reported) - 1) :
                  \E k \in 1..Len(w) : w[k] <= pos /\ pos < w[k] + BATCH_SIZE
            /\ c[1] = "song" => Range(reported) \subseteq MatchSet(c)

\* C9: the loop over the sticker clauses never goes on with an empty
\* candidate set: when a clause empties the set the function returns the empty
\* result at once, and no round-trip of a later clause is ever made.
C9_EarlyTermination ==
    /\ (rpc = "stickers" /\ clauseIdx > 1) => res # {}
    /\ (rpc = "done" /\ res = {} /\ clauseIdx \in 1..Len(sticker_clauses)) =>
          /\ ret = {}
          /\ \A k \in 1..Len(calls) : calls[k].clause <= clauseIdx

\* C9 witness: the first of two sticker clauses emptied a non-empty seed set
\* and the second was never asked about.
C9_Witness ==
    /\ rpc = "done"
    /\ Len(sticker_clauses) = 2
    /\ clauseIdx = 1
    /\ res = {}
    /\ \E k \in 1..Len(calls) : calls[k].clause = 0 /\ calls[k].start > 0

-----------------------------------------------------------------------------
(* Properties of the comparator *)

\* The pair has no value for the field the key compares.
Absent(ordering, p) ==
    IF ordering = "Track" THEN p.track < 0 ELSE p[FieldOf(ordering)] = None

\* C10: for a single key, when exactly one of the two pairs has no value for
\* the key, the comparator orders that pair after the other.
C10_NullsLast ==
    (cmpRes \notin {"none", "off"} /\ Len(cmpOrd) = 1 /\ cmpOrd[1] # "Random") =>
        /\ (Absent(cmpOrd[1], cmpA) /\ ~Absent(cmpOrd[1], cmpB)) => cmpRes = "Greater"
        /\ (~Absent(cmpOrd[1], cmpA) /\ Absent(cmpOrd[1], cmpB)) => cmpRes = "Less"

-----------------------------------------------------------------------------
(* Properties of the fetch orchestrator *)

\* The call of fetch_dynamic_playlist or fetch_dynamic_playlist_cached is over.
FetchOver == fn # "none" /\ pc \in {"done", "panicked"}

\* C3: when a fetch is over, the empty batch has been sent, it is the last
\* message of the resolution and the only empty one.
C3_SentinelAlwaysLast ==
    FetchOver =>
        /\ sent # <<>>
        /\ sent[Len(sent)] = Sentinel(dp.name)
        /\ \A i \in 1..(Len(sent) - 1) : sent[i].batch # <<>>

\* The resolution of a fresh fetch ran to its end: the empty batch was sent.
ResolutionCompleted ==
    /\ fn = "fetch_dynamic_playlist"
    /\ sent # <<>>
    /\ sent[Len(sent)] = Sentinel(dp.name)

\* C4: after a fresh fetch with cache = true has completed its resolution
\* (and the store did not fail), the rows cached for the playlist are the URIs
\* of the final song list, also when that list is empty.
C4_CacheIsThisResolution ==
    (ResolutionCompleted /\ cache /\ cacheWrite # "error") =>
        query_results[dp.name] = songs_stickers

-----------------------------------------------------------------------------
(* Properties of the store *)

\* The rename insert_dynamic_playlist(dp, Some(old_name)) is run by thread t.
Renames(t) ==
    /\ tx[t].fn = "insert_dynamic_playlist"
    /\ tx[t].overwrite_name # None

\* C5: insert_dynamic_playlist(dp, Some(old_name)) is all-or-nothing. Every
\* step of the call leaves the committed tables, which are what a concurrent
\* reader sees, either exactly as they were or with the old row gone, the new
\* row present and the image rows of the old key moved to the new key.
C5_AllOrNothing ==
    [][\A t \in Callers :
          (Renames(t) /\ tx'[t] # tx[t]) =>
              LET old_name == tx[t].overwrite_name[1]
                  name == tx[t].name
              IN  \/ UNCHANGED <<queries, images>>
                  \/ /\ queries' = {r \in queries : r.name # old_name}
                                       \cup {QueryRow(name, t)}
                     /\ images' = {IF r.key = DpKey(old_name)
                                   THEN [r EXCEPT !.key = DpKey(name)]
                                   ELSE r : r \in images}]_vars

\* C6: after a successful insert_dynamic_playlist(dp, Some(old_name)) with
\* old_name different from dp.name, every images row that was keyed
\* dynamic_playlist:<old_name> is keyed dynamic_playlist:<dp.name> and no
\* images row is left under the old key.
C6_ImageKeyMigrated ==
    \A t \in Callers :
        (/\ Renames(t)
         /\ tx[t].pc = "done"
         /\ tx[t].result = "Ok"
         /\ tx[t].overwrite_name[1] # tx[t].name) =>
            LET old_key == DpKey(tx[t].overwrite_name[1])
                new_key == DpKey(tx[t].name)
            IN  /\ \A r \in tx[t].pre.images :
                       r.key = old_key => [r EXCEPT !.key = new_key] \in tx[t].work.images
                /\ \A r \in tx[t].work.images : r.key # old_key

\* Thread t has returned from insert_dynamic_playlist(dp, None) for `name`.
InsertedNew(t, name) ==
    /\ tx[t].fn = "insert_dynamic_playlist"
    /\ tx[t].pc = "done"
    /\ tx[t].overwrite_name = None
    /\ tx[t].name = name

\* C7: two insert_dynamic_playlist calls on different threads with the same
\* new name and no overwrite target, with nothing else using the store and no
\* failure of the environment, end with one Ok and one KeyAlreadyExists and
\* with exactly one row of that name.
C7_OneOkOneKeyAlreadyExists ==
    \A name \in {"a", "b"} :
        (/\ InsertedNew("main", name)
         /\ InsertedNew("background", name)
         /\ ~faulted
         /\ pushed = 0
         /\ QueryRow(name, "init") \notin queries) =>
            /\ {tx["main"].result, tx["background"].result} = {"Ok", "KeyAlreadyExists"}
            /\ Cardinality({r \in queries : r.name = name}) = 1

\* Thread t has begun a write transaction and has neither committed it nor
\* rolled it back.
WriteTxOpen(t) == tx[t].pc \notin {"idle", "done"}

\* C8: every write transaction of the store runs on the single write worker,
\* so there is never more than one write transaction open.
C8_OneWriteTransactionOpen ==
    /\ Cardinality({t \in Threads : WriteTxOpen(t)}) <= 1
    /\ \A t \in Threads : WriteTxOpen(t) => t = WriteWorker

-----------------------------------------------------------------------------
(* Properties of the hydration *)

\* The URIs of all the messages sent, in order.
RECURSIVE Delivered(_)
Delivered(msgs) ==
    IF msgs = <<>> THEN <<>> ELSE Head(msgs).batch \o Delivered(Tail(msgs))

\* The song or sticker lookup of URI u failed in the last hydration.
FaultAt(u) == u \in hydration.faults.findErr \cup hydration.faults.stickerErr

\* The URIs of the last hydration looked up before the first fault.
RECURSIVE BeforeFault(_)
BeforeFault(us) ==
    IF us = <<>> \/ FaultAt(Head(us)) THEN <<>>
    ELSE (IF Head(us) \in hydration.faults.gone THEN <<>> ELSE <<Head(us)>>)
           \o BeforeFault(Tail(us))

\* fetch_dynamic_playlist hit a remote fault while hydrating, and has gone
\* past the delivery.
HydrationFaulted ==
    /\ fn = "fetch_dynamic_playlist"
    /\ pc \in {"restore", "done", "panicked"}
    /\ \E i \in 1..Len(hydration.uris) : FaultAt(hydration.uris[i])
    /\ \A i \in 1..Len(dp.ordering) : dp.ordering[i] # "Random"

\* C11: when a song or sticker lookup fails while fetch_dynamic_playlist
\* hydrates the k-th URI, the songs hydrated before the fault are sorted,
\* truncated and delivered, followed by the sentinel: the run neither ends
\* with nothing sent nor panics before sending.
C11_PartialResultsDelivered ==
    HydrationFaulted =>
        /\ sent # <<>>
        /\ sent[Len(sent)] = Sentinel(dp.name)
        /\ Delivered(sent) =
             Truncate(SortBy(BeforeFault(hydration.uris), dp.ordering, tagtypes).list,
                      dp.limit)

-----------------------------------------------------------------------------
(* The paging loops of the background client, one iteration at a time *)

\* Most requests followed in one loop.
MaxRequests == 4

PagingFns ==
    {"get_current_queue", "fetch_songs_by_query", "fetch_uris_by_sticker",
     "fetch_playlist_songs_internal"}

\* How the server answers one window request: with the page, with
\* MpdError::Server of code Argument (the window is out of range), with
\* another MpdError::Server, or with another MpdError (I/O, parse).
Responses == {"ok", "server_argument", "server_other", "io"}

\* The records the server holds for the loop.
PagingRecords == [i \in 1..paging.total |-> i]

\* The page of the window (curr_len, curr_len + BATCH_SIZE).
PagingWindow == Page(PagingRecords, paging.curr_len, paging.curr_len + BATCH_SIZE)

\* while more && curr_len < FETCH_LIMIT
LoopRuns ==
    /\ paging.more
    /\ paging.curr_len < FETCH_LIMIT
    /\ paging.requests < MaxRequests

\* The loop's record after one iteration that got resp. signals are the
\* messages and callbacks other than pages of data that the loop has issued.
Iterated(resp, curr_len, more, acc) ==
    [paging EXCEPT !.resp = resp, !.requests = paging.requests + 1,
                   !.curr_len = curr_len, !.more = more, !.acc = acc]

\* get_current_queue, lines 60-98: a non-empty page is sent on and the window
\* moves; an empty page or any MpdError::Server ends the loop; any other error
\* is reported to the foreground (line 94) and the loop goes round.
QueueIteration ==
    /\ paging.fn = "get_current_queue"
    /\ LoopRuns
    /\ \E resp \in Responses :
         paging' =
            IF resp = "ok"
            THEN IF PagingWindow # <<>>
                 THEN Iterated(resp, paging.curr_len + BATCH_SIZE, TRUE,
                               paging.acc \o PagingWindow)
                 ELSE Iterated(resp, paging.curr_len, FALSE, paging.acc)
            ELSE IF resp \in {"server_argument", "server_other"}
            THEN Iterated(resp, paging.curr_len, FALSE, paging.acc)
            ELSE [Iterated(resp, paging.curr_len, paging.more, paging.acc)
                    EXCEPT !.signals = Append(@, "BackgroundError")]

\* fetch_songs_by_query, lines 428-450: an empty page or any error ends the
\* loop; the error is printed by dbg! and no message is sent.
QueryIteration ==
    /\ paging.fn = "fetch_songs_by_query"
    /\ LoopRuns
    /\ \E resp \in Responses :
         paging' =
            IF resp = "ok" /\ PagingWindow # <<>>
            THEN Iterated(resp, paging.curr_len + BATCH_SIZE, TRUE,
                          paging.acc \o PagingWindow)
            ELSE Iterated(resp, paging.curr_len, FALSE, paging.acc)

\* fetch_uris_by_sticker, lines 466-518: as fetch_songs_by_query, with the
\* window moved as the arm of the object type moves it. acc holds the names
\* received.
StickerIteration ==
    /\ paging.fn = "fetch_uris_by_sticker"
    /\ LoopRuns
    /\ \E resp \in Responses :
         paging' =
            IF resp = "ok" /\ PagingWindow # <<>>
            THEN Iterated(resp, StickerAdvance(paging.obj, paging.curr_len), TRUE,
                          paging.acc \o PagingWindow)
            ELSE Iterated(resp, paging.curr_len, FALSE, paging.acc)

\* fetch_playlist_songs_internal for MPD 0.24 and later, lines 753-769: a page
\* shorter than BATCH_SIZE ends the loop; an error is handed to on_error and
\* neither more nor curr_len changes.
PlaylistIteration ==
    /\ paging.fn = "fetch_playlist_songs_internal"
    /\ LoopRuns
    /\ \E resp \in Responses :
         paging' =
            IF resp = "ok"
            THEN Iterated(resp, paging.curr_len + Len(PagingWindow),
                          Len(PagingWindow) >= BATCH_SIZE, paging.acc \o PagingWindow)
            ELSE [Iterated(resp, paging.curr_len, paging.more, paging.acc)
                    EXCEPT !.signals = Append(@, "on_error")]

PagingInit ==
    /\ StoreIdle
    /\ CmpIdle
    /\ RemoteIdle
    /\ ResolveIdle
    /\ FetchIdle
    /\ CacheIdle
    /\ binding = BindingIdle
    /\ schema = SchemaIdle
    /\ roundtrip = RoundtripIdle
    /\ queuing = QueuingIdle
    /\ albumMeta = AlbumMetaIdle
    /\ AuxIdle
    /\ \E f \in PagingFns, o \in {"song", "album"}, n \in 0..LibSize :
         /\ f # "fetch_uris_by_sticker" => o = "song"
         /\ paging = [fn |-> f, obj |-> o, total |-> n, curr_len |-> 0, more |-> TRUE,
                      acc |-> <<>>, resp |-> "none", requests |-> 0, signals |-> <<>>]

PagingOthers ==
    <<cmpVars, remoteVars, resolveVars, fetchVars, cacheVars, storeVars, binding, schema,
      roundtrip, queuing, albumMeta, auxVars>>

PagingNext ==
    \/ QueueIteration /\ UNCHANGED PagingOthers
    \/ QueryIteration /\ UNCHANGED PagingOthers
    \/ StickerIteration /\ UNCHANGED PagingOthers
    \/ PlaylistIteration /\ UNCHANGED PagingOthers

SpecPaging == PagingInit /\ [][PagingNext]_vars

\* C12: each paging loop leaves the loop on the first remote error and keeps
\* what it has accumulated: after an iteration whose request was answered by
\* an error, the loop does not go round again.
C12_LoopLeftOnError == paging.resp \in Responses \ {"ok"} => ~paging.more

-----------------------------------------------------------------------------
(* bind_by_name (library/dynamic_playlist_content_view.rs) *)

\* The times tried lie within MaxSlack seconds of a refresh interval.
MaxSlack == 1

AutoRefreshes == {"None", "Hourly", "Daily", "Weekly", "Monthly", "Yearly"}

\* Lines 481-488: the interval the age of the cache is compared with.
Interval(auto_refresh) ==
    CASE auto_refresh = "None" -> I64_MAX
      [] auto_refresh = "Hourly" -> 3600
      [] auto_refresh = "Daily" -> 86400
      [] auto_refresh = "Weekly" -> 86400 * 7
      [] auto_refresh = "Monthly" -> 86400 * 30
      [] auto_refresh = "Yearly" -> 86400 * 365

\* A comparison that also fires at the interval itself: C14 must not hold of it.
ExceedsOrReaches(age, interval) == age >= interval

\* Line 480: now - last_refresh > interval.
Exceeds(age, interval) == age > interval

\* A check that finds every cache stale: C13 must not hold of it.
RefreshAlwaysDue(auto_refresh, age) == TRUE

\* Lines 479-488: the condition of the auto-refresh.
RefreshDue(auto_refresh, age) ==
    auto_refresh # "None" /\ Exceeds(age, Interval(auto_refresh))

\* Lines 472-506: what bind_by_name asks of the library for what
\* get_dynamic_playlist_info returned.
bind_by_name(info, auto_refresh, refreshed, time) ==
    IF info # "Some" THEN "nothing"
    ELSE IF refreshed # None
         THEN IF RefreshDue(auto_refresh, time - refreshed[1])
              THEN "fetch_dynamic_playlist"
              ELSE "fetch_cached_dynamic_playlist"
         ELSE "fetch_dynamic_playlist"

\* The stored last_refresh values tried.
LastRefreshes == {None, Some(0), Some(1000)}

\* The times tried: around every interval after each stored last_refresh, and
\* a clock behind the stored time.
BindTimes ==
    {0} \cup {base + Interval(a) + d :
                base \in {0, 1000}, a \in AutoRefreshes \ {"None"}, d \in -MaxSlack..MaxSlack}

BindInit ==
    /\ StoreIdle
    /\ CmpIdle
    /\ RemoteIdle
    /\ ResolveIdle
    /\ FetchIdle
    /\ CacheIdle
    /\ paging = PagingIdle
    /\ schema = SchemaIdle
    /\ roundtrip = RoundtripIdle
    /\ queuing = QueuingIdle
    /\ albumMeta = AlbumMetaIdle
    /\ AuxIdle
    /\ binding \in [auto_refresh : AutoRefreshes, last_refresh : LastRefreshes,
                    now : BindTimes, info : {"Some", "None", "Err"}, mode : {"none"}]

BindByName ==
    /\ binding.mode = "none"
    /\ binding' = [binding EXCEPT !.mode = bind_by_name(binding.info, binding.auto_refresh,
                                                        binding.last_refresh, binding.now)]

BindNext ==
    BindByName
      /\ UNCHANGED <<cmpVars, remoteVars, resolveVars, fetchVars, cacheVars, storeVars,
                     paging, schema, roundtrip, queuing, albumMeta, auxVars>>

SpecBind == BindInit /\ [][BindNext]_vars

\* bind_by_name has chosen a mode for a DP it found in the store.
Bound == binding.mode \notin {"none", "nothing"}

\* C13 as stated: for a DP whose auto_refresh is None, bind_by_name never
\* starts a fresh resolve, whether last_refresh is present or absent.
C13_NoneNeverFresh ==
    (Bound /\ binding.auto_refresh = "None") =>
        binding.mode = "fetch_cached_dynamic_playlist"

\* C13 amended: for a DP whose auto_refresh is None and which has a stored
\* last_refresh, of any age, bind_by_name never starts a fresh resolve and
\* serves the DP from the cache. (A DP that was never resolved has no
\* last_refresh and is resolved.)
C13_NoneWithCacheNeverFresh ==
    (Bound /\ binding.auto_refresh = "None" /\ binding.last_refresh # None) =>
        binding.mode = "fetch_cached_dynamic_playlist"

\* C13 witness: auto_refresh None, a cache older than a year, served from it.
C13_Witness ==
    /\ binding.auto_refresh = "None"
    /\ binding.last_refresh # None
    /\ binding.now - binding.last_refresh[1] > 31536000
    /\ binding.mode = "fetch_cached_dynamic_playlist"

\* C14: for a DP with a stored last_refresh and auto_refresh other than None,
\* bind_by_name starts a fresh resolve exactly when now - last_refresh exceeds
\* the interval (3600, 86400, 604800, 2592000, 31536000 seconds) and serves
\* from the cache otherwise, also when the two are equal.
C14_FreshExactlyWhenExceeded ==
    (Bound /\ binding.auto_refresh # "None" /\ binding.last_refresh # None) =>
        LET age == binding.now - binding.last_refresh[1]
            interval == CASE binding.auto_refresh = "Hourly" -> 3600
                          [] binding.auto_refresh = "Daily" -> 86400
                          [] binding.auto_refresh = "Weekly" -> 604800
                          [] binding.auto_refresh = "Monthly" -> 2592000
                          [] binding.auto_refresh = "Yearly" -> 31536000
        IN  /\ age > interval => binding.mode = "fetch_dynamic_playlist"
            /\ age <= interval => binding.mode = "fetch_cached_dynamic_playlist"

\* C14 witness: a monthly DP whose cache is exactly 2592000 seconds old is
\* served from the cache.
C14_Witness ==
    /\ binding.auto_refresh = "Monthly"
    /\ binding.last_refresh # None
    /\ binding.now - binding.last_refresh[1] = 2592000
    /\ binding.mode = "fetch_cached_dynamic_playlist"

-----------------------------------------------------------------------------
(* Properties of the sort and of the tag reporting *)

\* The ordering of the DP being fetched has the Random key.
HasRandom == \E i \in 1..Len(dp.ordering) : dp.ordering[i] = "Random"

\* C15: for a DP whose ordering contains Random, fetch_dynamic_playlist does
\* not sort with the comparator of build_comparator: the step that sorts and
\* delivers never ends in the panic of the comparator's unreachable Random
\* branch, for any number of hydrated songs.
C15_RandomNeverCompared ==
    [][(fn = "fetch_dynamic_playlist" /\ pc = "deliver" /\ HasRandom) => pc' # "panicked"]_vars

\* tagtypes_clear succeeded in this run: the resolution was started.
TagsCleared == fn = "fetch_dynamic_playlist" /\ rpc # "off"

\* C16: every fetch_dynamic_playlist run in which tag reporting was cleared
\* has restored full tag reporting (tagtypes_all) when it is over, also when
\* hydration failed or gave only part of the songs.
C16_TagsRestored ==
    (TagsCleared /\ pc \in {"done", "panicked"}) => tagtypes = AllTags

-----------------------------------------------------------------------------
(* The rows of query_results: cache_dynamic_playlist_results followed by
   get_cached_dynamic_playlist_results (cache/sqlite.rs) *)

\* The longest song list cached.
MaxCached == 2

CachedUris == 1..3

\* A row of query_results: the table has no primary key, so a row has the
\* rowid SQLite gave it.
ResultRow(id, n, u) == [rowid |-> id, query_name |-> n, uri |-> u]

\* A delete that removes nothing: C17 must not hold of it.
KeepPrevious(rows, name) == rows

\* Lines 891-894: delete from query_results where query_name = ?1.
DeletePrevious(rows, name) == {r \in rows : r.query_name # name}

\* The rowid of a new row: one more than the largest in the table.
NextRowid(rows) ==
    IF rows = {} THEN 1
    ELSE 1 + CHOOSE m \in {r.rowid : r \in rows} : \A r \in rows : r.rowid <= m

\* Lines 895-903: one insert for every song, in the order of the list.
RECURSIVE InsertSongs(_, _, _)
InsertSongs(rows, name, songs) ==
    IF songs = <<>> THEN rows
    ELSE InsertSongs(rows \cup {ResultRow(NextRowid(rows), name, Head(songs).uri)},
                     name, Tail(songs))

\* Lines 956-962: select uri from query_results where query_name = ?1, which
\* SQLite answers from the index on query_name, in the order of the rowids.
RECURSIVE SelectUris(_, _)
SelectUris(rows, name) ==
    LET mine == {r \in rows : r.query_name = name}
    IN  IF mine = {} THEN <<>>
        ELSE LET first == CHOOSE r \in mine : \A q \in mine : r.rowid <= q.rowid
             IN  <<first.uri>> \o SelectUris(rows \ {first}, name)

\* The song lists submitted.
SongLists ==
    UNION {[1..n -> {[uri |-> u] : u \in CachedUris}] : n \in 0..MaxCached}

\* Tables left by earlier calls, some with the gaps deletes leave.
RowTables ==
    {{},
     {ResultRow(1, "a", 2), ResultRow(2, "a", 1)},
     {ResultRow(1, "b", 3)},
     {ResultRow(1, "b", 3), ResultRow(2, "a", 1), ResultRow(3, "a", 1)},
     {ResultRow(3, "b", 2), ResultRow(4, "a", 3)},
     {ResultRow(1, "a", 3), ResultRow(2, "b", 1), ResultRow(5, "b", 2)}}

RoundtripInit ==
    /\ StoreIdle
    /\ CmpIdle
    /\ RemoteIdle
    /\ ResolveIdle
    /\ FetchIdle
    /\ CacheIdle
    /\ paging = PagingIdle
    /\ binding = BindingIdle
    /\ schema = SchemaIdle
    /\ queuing = QueuingIdle
    /\ albumMeta = AlbumMetaIdle
    /\ AuxIdle
    /\ roundtrip \in [rows : RowTables, name : DpNames, songs : SongLists,
                      result : {"none"}, got : {<<>>}, pc : {"cache"}]

\* Lines 882-915: cache_dynamic_playlist_results; an error of the delete, of
\* an insert or of the commit drops the transaction.
RoundtripCache ==
    /\ roundtrip.pc = "cache"
    /\ \E ok \in BOOLEAN :
          roundtrip' =
              IF ok
              THEN [roundtrip EXCEPT
                      !.rows = InsertSongs(DeletePrevious(roundtrip.rows, roundtrip.name),
                                           roundtrip.name, roundtrip.songs),
                      !.result = "Ok", !.pc = "get"]
              ELSE [roundtrip EXCEPT !.result = "DbError", !.pc = "get"]

\* Lines 951-964: get_cached_dynamic_playlist_results.
RoundtripGet ==
    /\ roundtrip.pc = "get"
    /\ \E ok \in BOOLEAN :
          roundtrip' =
              IF ok
              THEN [roundtrip EXCEPT !.got = SelectUris(roundtrip.rows, roundtrip.name),
                                     !.pc = "got"]
              ELSE [roundtrip EXCEPT !.pc = "failed"]

RoundtripOthers ==
    <<cmpVars, remoteVars, resolveVars, fetchVars, cacheVars, storeVars, paging, binding, schema,
      queuing, albumMeta, auxVars>>

RoundtripNext ==
    \/ RoundtripCache /\ UNCHANGED RoundtripOthers
    \/ RoundtripGet /\ UNCHANGED RoundtripOthers

SpecRoundtrip == RoundtripInit /\ [][RoundtripNext]_vars

\* C17: cache_dynamic_playlist_results(name, songs) followed by
\* get_cached_dynamic_playlist_results(name) returns exactly the URIs of songs
\* in the order submitted, whatever was cached for name before and whatever
\* is cached for other names.
C17_RoundTrip ==
    (roundtrip.pc = "got" /\ roundtrip.result = "Ok") =>
        /\ Len(roundtrip.got) = Len(roundtrip.songs)
        /\ \A i \in 1..Len(roundtrip.songs) : roundtrip.got[i] = roundtrip.songs[i].uri

\* C17 witness: two songs cached over an older result of the same name, next
\* to rows of another name, and read back.
C17_Witness ==
    /\ roundtrip.pc = "got"
    /\ roundtrip.result = "Ok"
    /\ Len(roundtrip.songs) = 2
    /\ roundtrip.songs[1].uri > roundtrip.songs[2].uri
    /\ \E r \in roundtrip.rows : r.query_name # roundtrip.name
    /\ \E r \in roundtrip.rows : r.query_name = roundtrip.name /\ r.rowid > 3
    /\ roundtrip.got = <<roundtrip.songs[1].uri, roundtrip.songs[2].uri>>

\* C18: cache_dynamic_playlist_results(name, songs), for a stored DP name,
\* replaces the result rows of name and sets last_refresh of name as one
\* unit. Every step of the call leaves the committed result sets and
\* last_refresh values as they were, or commits both the new result set and
\* the new last_refresh; an error in the delete, in an insert or in the
\* update of last_refresh leaves both unchanged.
C18_ResultsAndRefreshTogether ==
    [][\A t \in Threads :
          (/\ tx[t].fn = "cache_dynamic_playlist_results"
           /\ tx'[t] # tx[t]
           /\ \E r \in queries : r.name = tx[t].name) =>
              \/ UNCHANGED <<query_results, last_refresh>>
              \/ /\ query_results' = [query_results EXCEPT ![tx[t].name] = tx[t].songs]
                 /\ last_refresh' = [last_refresh EXCEPT ![tx[t].name] = Some(now)]]_vars

\* C19: insert_dynamic_playlist(dp, None) called when a row named dp.name
\* exists returns KeyAlreadyExists and leaves the stored DP definitions, the
\* cached result sets and the image rows unchanged. The step that counts the
\* rows of the name ends the call without a write; it returns
\* KeyAlreadyExists unless the database itself failed, and then DbError.
C19_DuplicateRefused ==
    [][\A t \in Callers :
          (/\ tx[t].fn = "insert_dynamic_playlist"
           /\ tx[t].overwrite_name = None
           /\ tx[t].pc = "count"
           /\ tx'[t] # tx[t]
           /\ \E r \in queries : r.name = tx[t].name) =>
              /\ UNCHANGED <<queries, images, query_results, last_refresh>>
              /\ tx'[t].pc = "done"
              /\ tx'[t].result \in {"KeyAlreadyExists", "DbError"}
              /\ tx'[t].result = "DbError" => faulted']_vars

\* C19 witness: an insert without overwrite target has returned
\* KeyAlreadyExists and the row of that name is still the stored one.
C19_Witness ==
    \E t \in Callers :
        /\ tx[t].fn = "insert_dynamic_playlist"
        /\ tx[t].overwrite_name = None
        /\ tx[t].result = "KeyAlreadyExists"
        /\ QueryRow(tx[t].name, "init") \in queries
        /\ ~faulted

-----------------------------------------------------------------------------
(* The migration loop run when SQLITE_POOL is built (cache/sqlite.rs) *)

\* The turns of the loop followed when no arm changes the version.
MaxSpins == 3

\* The latest schema version: the arm that leaves the loop.
LatestVersion == 4

\* How far below the first and above the latest version the markers tried go.
MaxBeyond == 2

\* pragma user_version is read as an i32.
StoredVersions == (0 - MaxBeyond)..(LatestVersion + MaxBeyond)

\* A statement of a batch: `add` fails when the object is there (alter table
\* add column), `ensure` does not (create .. if not exists, pragma
\* journal_mode).
Stmt(kind, obj) == [kind |-> kind, obj |-> obj]

\* Lines 42-65: the statements of the batch of 3 => .. before its pragma
\* user_version.
Batch3To4 ==
    <<Stmt("ensure", "queries"), Stmt("ensure", "query_key"),
      Stmt("ensure", "query_results"), Stmt("ensure", "query_results_key")>>

\* Lines 69-70.
Batch2To3 ==
    <<Stmt("add", "albums_history.mbid"), Stmt("add", "albums_history.artist")>>

\* Line 75.
Batch1To2 == <<Stmt("ensure", "wal")>>

\* What the schema of a version has on top of the schema of version 1.
RECURSIVE BatchObjects(_)
BatchObjects(batch) ==
    IF batch = <<>> THEN {} ELSE {Head(batch).obj} \cup BatchObjects(Tail(batch))

\* The schemas a database with marker v has when every step was applied
\* whole. Version 4 is reached by the steps or, for a new database, by the
\* one batch of lines 162-263, whose pragma journal_mode=WAL runs inside the
\* transaction and changes nothing.
VersionObjects(v) ==
    CASE v <= 1 -> {{}}
      [] v = 2 -> {BatchObjects(Batch1To2)}
      [] v = 3 -> {BatchObjects(Batch1To2 \o Batch2To3)}
      [] v >= 4 -> {BatchObjects(Batch1To2 \o Batch2To3 \o Batch3To4),
                    BatchObjects(Batch2To3 \o Batch3To4)}

\* The databases found at startup: a marker, whether table albums is there,
\* and the objects of the later versions. Every version from 1 on has the
\* table.
SchemaStates ==
    {s \in [user_version : StoredVersions, albums : BOOLEAN, pc : {"loop"},
            objects : SUBSET BatchObjects(Batch1To2 \o Batch2To3 \o Batch3To4),
            batches : {<<>>}, reads : {0}] :
        /\ s.user_version \in 1..LatestVersion => s.albums
        /\ s.objects \in VersionObjects(s.user_version)}

MigrateInit ==
    /\ StoreIdle
    /\ CmpIdle
    /\ RemoteIdle
    /\ ResolveIdle
    /\ FetchIdle
    /\ CacheIdle
    /\ paging = PagingIdle
    /\ binding = BindingIdle
    /\ roundtrip = RoundtripIdle
    /\ queuing = QueuingIdle
    /\ albumMeta = AlbumMetaIdle
    /\ AuxIdle
    /\ schema \in SchemaStates

\* Lines 32-36: the turn starts by reading pragma user_version.
Reads(v) == schema.pc = "loop" /\ schema.user_version = v

\* The first k statements of a batch run on the objects: the objects after
\* them, and whether each of them succeeded.
RECURSIVE RunStmts(_, _, _)
RunStmts(batch, k, objects) ==
    IF k = 0 \/ batch = <<>> THEN [ok |-> TRUE, objects |-> objects]
    ELSE IF Head(batch).kind = "add" /\ Head(batch).obj \in objects
         THEN [ok |-> FALSE, objects |-> objects]
         ELSE RunStmts(Tail(batch), k - 1, objects \cup {Head(batch).obj})

\* execute_batch(..).expect(..) of a batch without begin .. end: every
\* statement commits on its own. The statements run until one fails, of
\* itself or for a reason of the environment after k of them; the last one is
\* pragma user_version = to. A failure panics the thread.
ExecuteBatch(step, batch, to) ==
    \E k \in 0..(Len(batch) + 1) :
        LET run == RunStmts(batch, k, schema.objects)
        IN  schema' = IF run.ok /\ k = Len(batch) + 1
                      THEN [schema EXCEPT !.user_version = to, !.objects = run.objects,
                                          !.batches = Append(@, step), !.reads = @ + 1]
                      ELSE [schema EXCEPT !.pc = "panicked", !.objects = run.objects,
                                          !.reads = @ + 1]

\* execute_batch(..).expect(..) of a batch written begin; .. end;: a failure
\* leaves the transaction open, the panic drops the connection and SQLite
\* rolls the transaction back.
ExecuteTransaction(step, to) ==
    \E ok \in BOOLEAN :
        schema' = IF ok
                  THEN [schema EXCEPT !.user_version = to, !.albums = TRUE,
                                      !.batches = Append(@, step), !.reads = @ + 1]
                  ELSE [schema EXCEPT !.pc = "panicked", !.reads = @ + 1]

\* Line 40: 4 => break.
MigrateBreak ==
    /\ Reads(LatestVersion)
    /\ schema' = [schema EXCEPT !.pc = "done", !.reads = @ + 1]

\* Lines 41-67.
Migrate3To4 == Reads(3) /\ ExecuteBatch("3to4", Batch3To4, 4)

\* Lines 68-73.
Migrate2To3 == Reads(2) /\ ExecuteBatch("2to3", Batch2To3, 3)

\* Lines 74-78.
Migrate1To2 == Reads(1) /\ ExecuteBatch("1to2", Batch1To2, 2)

\* Lines 79-158: version 0 with table albums: the schema of the first release.
Migrate0To1 == Reads(0) /\ schema.albums /\ ExecuteTransaction("0to1", 1)

\* Lines 159-265: version 0 without table albums: a new database gets the
\* latest schema at once.
MigrateFromScratch ==
    /\ Reads(0)
    /\ ~schema.albums
    /\ \E ok \in BOOLEAN :
          schema' = IF ok
                    THEN [schema EXCEPT !.user_version = 4, !.albums = TRUE,
                                        !.objects = BatchObjects(Batch2To3 \o Batch3To4),
                                        !.batches = Append(@, "init"), !.reads = @ + 1]
                    ELSE [schema EXCEPT !.pc = "panicked", !.reads = @ + 1]

\* The application is started again on the database file a run left.
MigrateRestart ==
    /\ schema.pc \in {"done", "panicked"}
    /\ schema' = [schema EXCEPT !.pc = "loop", !.reads = 0]

\* Line 270: _ => {}. The loop reads the marker again.
MigrateOther ==
    /\ schema.pc = "loop"
    /\ schema.user_version \notin 0..LatestVersion
    /\ schema.reads < MaxSpins
    /\ schema' = [schema EXCEPT !.reads = @ + 1]

MigrateOthers ==
    <<cmpVars, remoteVars, resolveVars, fetchVars, cacheVars, storeVars, paging, binding,
      roundtrip, queuing, albumMeta, auxVars>>

MigrateNext ==
    \/ MigrateBreak /\ UNCHANGED MigrateOthers
    \/ Migrate3To4 /\ UNCHANGED MigrateOthers
    \/ Migrate2To3 /\ UNCHANGED MigrateOthers
    \/ Migrate1To2 /\ UNCHANGED MigrateOthers
    \/ Migrate0To1 /\ UNCHANGED MigrateOthers
    \/ MigrateFromScratch /\ UNCHANGED MigrateOthers
    \/ MigrateOther /\ UNCHANGED MigrateOthers
    \/ MigrateRestart /\ UNCHANGED MigrateOthers

SpecMigrate == MigrateInit /\ [][MigrateNext]_vars

\* C20: from any stored schema version marker, every turn of the migration
\* loop makes progress: it leaves the loop with the marker at the latest
\* version (4), or it raises the marker (by one step, or to the latest
\* version for a new database), or a failing batch stops the startup. The
\* loop never takes a turn that changes nothing.
C20_EveryTurnProgresses ==
    [][(schema.pc = "loop" /\ schema' # schema) =>
          \/ schema'.pc = "done" /\ schema'.user_version = 4
          \/ schema'.pc = "panicked"
          \/ schema'.user_version > schema.user_version]_vars

\* C21: each migration step is atomic. Whatever step failed, and after
\* however many statements, the database has the whole schema of the version
\* its marker names (tables, indices and columns; the journal mode is not
\* schema): it is never left partly of version v and partly of version v+1.
C21_StepsAtomic ==
    (schema.pc # "off" /\ schema.user_version \in 0..LatestVersion) =>
        \E whole \in VersionObjects(schema.user_version) :
            schema.objects \ {"wal"} = whole \ {"wal"}

-----------------------------------------------------------------------------
(* Properties of the delivery *)

\* The non-empty batches sent, in send order.
NonEmptyBatches == SelectSeq(sent, LAMBDA msg : msg.batch # <<>>)

\* C22: in fetch_dynamic_playlist the concatenation, in send order, of the
\* non-empty batches is the sorted and truncated song list; no batch has more
\* than BATCH_SIZE songs and every non-empty batch but the last has exactly
\* BATCH_SIZE.
C22_BatchesInOrder ==
    (fn = "fetch_dynamic_playlist" /\ sent # <<>>) =>
        /\ Delivered(sent) = songs_stickers
        /\ \A i \in 1..Len(NonEmptyBatches) :
              /\ Len(NonEmptyBatches[i].batch) <= BATCH_SIZE
              /\ i < Len(NonEmptyBatches) => Len(NonEmptyBatches[i].batch) = BATCH_SIZE

\* C22 witness: a list longer than two batches was sent as two full batches
\* and a shorter one, then the empty batch.
C22_Witness ==
    /\ fn = "fetch_dynamic_playlist"
    /\ Len(sent) = 4
    /\ Len(sent[1].batch) = BATCH_SIZE
    /\ Len(sent[2].batch) = BATCH_SIZE
    /\ Len(sent[3].batch) \in 1..(BATCH_SIZE - 1)
    /\ sent[4] = Sentinel(dp.name)
    /\ \E i \in 1..Len(dp.ordering) : dp.ordering[i] = "Track"

\* The songs hydrated in this run, in the order of the lookups.
Hydrated == BeforeFault(hydration.uris)

\* The hydrated songs fully sorted.
FullySorted == SortBy(Hydrated, dp.ordering, tagtypes).list

\* C23: with a limit L set on the DP, the list delivered by
\* fetch_dynamic_playlist, and the list cached when the cache write
\* committed, is the first min(L, n) elements of the fully sorted list of the
\* n hydrated songs.
C23_TruncatedAfterSort ==
    (fn = "fetch_dynamic_playlist" /\ sent # <<>> /\ dp.limit # None) =>
        LET first == SubSeq(FullySorted, 1, Min(dp.limit[1], Len(Hydrated)))
        IN  /\ Delivered(sent) = first
            /\ (cache /\ cacheWrite \in {"ok", "update_error"} /\ Hydrated # <<>>)
                  => query_results[dp.name] = first

\* C23 witness: five songs hydrated, a limit of three, and the three
\* delivered and cached are not the first three hydrated.
C23_Witness ==
    /\ fn = "fetch_dynamic_playlist"
    /\ dp.limit = Some(BATCH_SIZE + 1)
    /\ Len(Hydrated) = LibSize
    /\ Len(Delivered(sent)) = BATCH_SIZE + 1
    /\ Delivered(sent) # SubSeq(Hydrated, 1, BATCH_SIZE + 1)
    /\ cache
    /\ query_results[dp.name] = Delivered(sent)

\* C24: a fresh resolve of a DP whose rules match no song sends exactly one
\* message, the empty batch, and no non-empty batch before it.
C24_EmptyResultOneMessage ==
    (FetchOver /\ fn = "fetch_dynamic_playlist" /\ Intersection(dp.rules) = {}) =>
        sent = <<Sentinel(dp.name)>>

-----------------------------------------------------------------------------
(* Properties of the comparator over a list of keys *)

\* What key i of the ordering list says of the two pairs.
KeyResult(i) == KeyCmp(cmpOrd[i], cmpA, cmpB)

\* The comparator returned (it did not reach the Random arm).
Compared == cmpRes \in {"Less", "Equal", "Greater"}

\* C25: the comparator of build_comparator is the lexicographic order over
\* the ordering list: what it returns for two pairs is the result of the
\* first key, in list order, on which they do not compare equal, and Equal
\* when every key compares equal, also for the empty list.
C25_Lexicographic ==
    Compared =>
        \/ /\ \A i \in 1..Len(cmpOrd) : KeyResult(i) = "Equal"
           /\ cmpRes = "Equal"
        \/ \E i \in 1..Len(cmpOrd) :
              /\ \A j \in 1..(i - 1) : KeyResult(j) = "Equal"
              /\ KeyResult(i) # "Equal"
              /\ cmpRes = KeyResult(i)

\* C25 witness: of two keys the first compares the pairs equal and the second
\* decides.
C25_Witness ==
    /\ Len(cmpOrd) = 2
    /\ KeyResult(1) = "Equal"
    /\ KeyResult(2) = "Greater"
    /\ cmpRes = "Greater"
    /\ cmpA.rating # None

-----------------------------------------------------------------------------
(* Properties of the sort *)

\* The comparator built from the DP's ordering applied to two hydrated songs.
SongCmp(x, y) ==
    build_comparator(dp.ordering, PairOf(x, TagsNeeded(dp.ordering)),
                     PairOf(y, TagsNeeded(dp.ordering)))

\* The place of song x in the list.
PlaceIn(list, x) == CHOOSE i \in 1..Len(list) : list[i] = x

\* fetch_dynamic_playlist has sorted the hydrated songs and cut nothing off.
SortedAll ==
    /\ fn = "fetch_dynamic_playlist"
    /\ sent # <<>>
    /\ dp.limit = None
    /\ Hydrated # <<>>

\* C26: sorting an input sequence with the comparator built from an ordering
\* list has one possible output, so that two comparators built from the same
\* list give identical outputs: the output is the permutation of the input
\* in which no element is Greater than a later one and elements that compare
\* Equal keep their relative input order.
C26_SortDeterminedAndStable ==
    SortedAll =>
        /\ Len(songs_stickers) = Len(Hydrated)
        /\ Range(songs_stickers) = Range(Hydrated)
        /\ \A i, j \in 1..Len(songs_stickers) :
              i < j =>
                 /\ SongCmp(songs_stickers[i], songs_stickers[j]) # "Greater"
                 /\ SongCmp(songs_stickers[i], songs_stickers[j]) = "Equal" =>
                       PlaceIn(Hydrated, songs_stickers[i]) < PlaceIn(Hydrated, songs_stickers[j])

\* C26 witness: songs hydrated in decreasing URI order and sorted by a key on
\* which two of them compare Equal and a third comes before them.
C26_Witness ==
    /\ SortedAll
    /\ dp.ordering # <<>>
    /\ Len(Hydrated) >= 3
    /\ Hydrated[1] > Hydrated[2]
    /\ songs_stickers # Hydrated
    /\ \E i, j \in 1..Len(songs_stickers) :
          /\ i < j
          /\ SongCmp(songs_stickers[i], songs_stickers[j]) = "Equal"
          /\ songs_stickers[i] > songs_stickers[j]

-----------------------------------------------------------------------------
(* Two fresh resolves of one DP that cache their results at the same time *)

\* The DP both resolves are of.
RaceName == "a"

\* The lists the two resolves may have resolved to.
RaceSongLists == {<<3, 1>>, <<2, 3>>, <<1>>}

\* The two resolves run on threads of their own, each with a pooled
\* connection; they use the transaction records of the two callers.
Resolvers == Callers

RaceInit ==
    /\ CmpIdle
    /\ SideIdle
    /\ RemoteIdle
    /\ ResolveIdle
    /\ FetchIdle
    /\ query_results \in CacheStates
    /\ last_refresh = [n \in DpNames |-> None]
    /\ queries \in QueriesStates
    /\ images = {}
    /\ dbVersion = 0
    /\ writer = "none"
    /\ tx = [t \in Threads |-> TxIdle]
    /\ jobs = <<>>
    /\ pushed = 0
    /\ faulted = FALSE

\* background.rs:1281: a resolve with cache = true has sorted its songs and
\* calls cache_dynamic_playlist_results(&dp.name, &songs).
RaceBegin(t) ==
    /\ t \in Resolvers
    /\ tx[t].pc = "idle"
    /\ \E songs \in RaceSongLists :
         tx' = [tx EXCEPT ![t] =
                  [TxIdle EXCEPT !.fn = "cache_dynamic_playlist_results",
                                 !.name = RaceName, !.songs = songs, !.pc = "qr_delete"]]
    /\ UNCHANGED <<queries, images, query_results, last_refresh, dbVersion, writer, jobs,
                   pushed, faulted>>

RaceNext ==
    \/ \E t \in Resolvers : RaceBegin(t) /\ UNCHANGED StoreOthers
    \/ \E t \in Resolvers : CacheDeletePrevious(t) /\ UNCHANGED StoreOthers
    \/ \E t \in Resolvers : CacheInsertSong(t) /\ UNCHANGED StoreOthers
    \/ \E t \in Resolvers : CacheUpdateRefresh(t) /\ UNCHANGED StoreOthers
    \/ \E t \in Resolvers : Commit(t) /\ UNCHANGED StoreOthers

SpecRace == RaceInit /\ [][RaceNext]_vars

\* Both cache writes have returned.
RaceOver ==
    \A t \in Resolvers : tx[t].fn = "cache_dynamic_playlist_results" /\ tx[t].pc = "done"

\* The resolves whose cache write committed. snapVer is the database version
\* a transaction wrote on: the greater one committed later.
RaceCommitted == {t \in Resolvers : tx[t].result = "Ok"}

\* C27: when two fresh resolves of one DP name ran at the same time with
\* cache = true and both have completed, the cached result set is the
\* complete URI sequence of the resolve whose cache write committed last,
\* never a mixture of rows of both.
C27_LastCommitWins ==
    (RaceOver /\ RaceCommitted # {}) =>
        \E last \in RaceCommitted :
            /\ \A t \in RaceCommitted : tx[t].snapVer <= tx[last].snapVer
            /\ query_results[RaceName] = tx[last].songs

\* C27 witness: both cache writes committed, with different lists, over rows
\* of an earlier resolution.
C27_Witness ==
    /\ RaceOver
    /\ RaceCommitted = Resolvers
    /\ tx["main"].songs = <<3, 1>>
    /\ tx["background"].songs = <<2, 3>>
    /\ tx["background"].snapVer < tx["main"].snapVer
    /\ query_results[RaceName] = <<3, 1>>
    /\ ~faulted

-----------------------------------------------------------------------------
(* The queuing operations of the background client *)

\* Most URIs handed to add_multi.
MaxQueued == 5

QueuingOps == {"find_add", "add_multi", "load_playlist", "queue_cached_dynamic_playlist"}

\* Result<(), MpdError> of one command: Ok, Err(MpdError::Io) or another Err.
CommandResults == {"Ok", "Io", "Other"}

\* AsyncClientMessage::Queuing(on), with the function that sent it.
Queuing(on, from) == [kind |-> "Queuing", on |-> on, from |-> from]

\* AsyncClientMessage::BackgroundError(error, Some(ClientError::Queuing))
BackgroundError(from) == [kind |-> "BackgroundError", on |-> FALSE, from |-> from]

\* AsyncClientMessage::Connect
Connect(from) == [kind |-> "Connect", on |-> FALSE, from |-> from]

\* The function whose body is running.
Running == IF queuing.callee # "none" THEN queuing.callee ELSE queuing.op

\* Where a function that has returned leaves the operation.
AfterReturn == IF queuing.callee # "none" THEN "qc_end" ELSE "done"

QueueInit ==
    /\ StoreIdle
    /\ CmpIdle
    /\ RemoteIdle
    /\ ResolveIdle
    /\ FetchIdle
    /\ CacheIdle
    /\ paging = PagingIdle
    /\ binding = BindingIdle
    /\ schema = SchemaIdle
    /\ roundtrip = RoundtripIdle
    /\ albumMeta = AlbumMetaIdle
    /\ AuxIdle
    /\ queuing \in [op : QueuingOps, uris : 0..MaxQueued, recursive : BOOLEAN,
                    start_playing_pos : {None, Some(0)}, insert_pos : {None, Some(0)},
                    play : BOOLEAN, inserted : {0}, res : {"Ok"}, pc : {"start"},
                    callee : {"none"}, msgs : {<<>>}]

\* Lines 885 and 965: find_add and load_playlist send Queuing(true) first.
QueuingStart ==
    /\ queuing.pc = "start"
    /\ queuing.op \in {"find_add", "load_playlist"}
    /\ queuing' = [queuing EXCEPT !.msgs = Append(@, Queuing(TRUE, queuing.op)),
                                  !.pc = "command"]

\* Lines 912-915: add_multi returns at once on an empty list, and sends
\* Queuing(true) otherwise.
AddMultiStart ==
    /\ queuing.pc = "start"
    /\ Running = "add_multi"
    /\ queuing' =
         IF queuing.uris = 0
         THEN [queuing EXCEPT !.pc = AfterReturn]
         ELSE [queuing EXCEPT !.msgs = Append(@, Queuing(TRUE, "add_multi")),
                              !.pc = IF queuing.uris > 1 THEN "batch" ELSE "command"]

\* Lines 1342-1352: queue_cached_dynamic_playlist sends Queuing(true), reads
\* the cached URIs and calls add_multi if the read is Ok.
QueueCachedStart ==
    /\ queuing.pc = "start"
    /\ queuing.op = "queue_cached_dynamic_playlist"
    /\ queuing.callee = "none"
    /\ \E cached \in BOOLEAN :
         queuing' =
           IF cached
           THEN [queuing EXCEPT
                   !.msgs = Append(@, Queuing(TRUE, "queue_cached_dynamic_playlist")),
                   !.callee = "add_multi", !.recursive = FALSE,
                   !.start_playing_pos = IF queuing.play THEN Some(0) ELSE None,
                   !.insert_pos = None]
           ELSE [queuing EXCEPT
                   !.msgs = Append(@, Queuing(TRUE, "queue_cached_dynamic_playlist")),
                   !.pc = "qc_end"]

\* Lines 886, 967 and 933-941: the one command of find_add, of load_playlist
\* and of add_multi with a single URI.
QueuingCommand ==
    /\ queuing.pc = "command"
    /\ \E r \in CommandResults :
         queuing' = [queuing EXCEPT !.res = r, !.pc = "play"]

\* Lines 917-932: one turn of the batch loop of add_multi.
AddMultiBatch ==
    /\ queuing.pc = "batch"
    /\ LET to_insert == Min(queuing.uris - queuing.inserted, BATCH_SIZE)
           inserted == queuing.inserted + to_insert
       IN  \E r \in CommandResults :
             queuing' = [queuing EXCEPT
                           !.res = r, !.inserted = inserted,
                           !.pc = IF r # "Ok" \/ inserted >= queuing.uris
                                  THEN "play" ELSE "batch"]

\* Lines 888-892, 943-947, 968-972: play_at after a result that is Ok.
QueuingPlayAt ==
    /\ queuing.pc = "play"
    /\ \E r \in CommandResults :
         queuing' = [queuing EXCEPT
                       !.res = IF queuing.start_playing_pos # None /\ queuing.res = "Ok"
                               THEN r ELSE @,
                       !.pc = "match"]

\* Lines 894-901, 949-956, 974-984: match res.
QueuingMatch ==
    /\ queuing.pc = "match"
    /\ LET msg == IF queuing.res = "Ok" THEN Queuing(FALSE, Running)
                  ELSE IF queuing.res = "Io" /\ Running = "load_playlist"
                       THEN Connect(Running)
                       ELSE BackgroundError(Running)
       IN  queuing' = [queuing EXCEPT !.msgs = Append(@, msg), !.pc = AfterReturn]

\* Line 1354: queue_cached_dynamic_playlist sends Queuing(false) last.
QueueCachedEnd ==
    /\ queuing.pc = "qc_end"
    /\ queuing' = [queuing EXCEPT
                     !.msgs = Append(@, Queuing(FALSE, "queue_cached_dynamic_playlist")),
                     !.callee = "none", !.pc = "done"]

QueueOthers ==
    <<cmpVars, remoteVars, resolveVars, fetchVars, cacheVars, storeVars, paging, binding,
      schema, roundtrip, albumMeta, auxVars>>

QueueNext ==
    \/ QueuingStart /\ UNCHANGED QueueOthers
    \/ AddMultiStart /\ UNCHANGED QueueOthers
    \/ QueueCachedStart /\ UNCHANGED QueueOthers
    \/ QueuingCommand /\ UNCHANGED QueueOthers
    \/ AddMultiBatch /\ UNCHANGED QueueOthers
    \/ QueuingPlayAt /\ UNCHANGED QueueOthers
    \/ QueuingMatch /\ UNCHANGED QueueOthers
    \/ QueueCachedEnd /\ UNCHANGED QueueOthers

SpecQueue == QueueInit /\ [][QueueNext]_vars

\* The message at position i is a Queuing(true) that no later Queuing(false)
\* of the same function follows.
LeftOpen(i) ==
    /\ queuing.msgs[i].kind = "Queuing"
    /\ queuing.msgs[i].on
    /\ ~\E j \in (i + 1)..Len(queuing.msgs) :
          /\ queuing.msgs[j].kind = "Queuing"
          /\ ~queuing.msgs[j].on
          /\ queuing.msgs[j].from = queuing.msgs[i].from

\* C28: once a queuing operation (find_add, add_multi, load_playlist,
\* queue_cached_dynamic_playlist) is over, every Queuing(true) it sent has been
\* followed by a Queuing(false) of the same operation, whether its remote
\* calls succeeded or failed. Every operation ends: its only loop inserts at
\* least one URI a turn.
C28_QueuingClosed ==
    queuing.pc = "done" => \A i \in DOMAIN queuing.msgs : ~LeftOpen(i)

-----------------------------------------------------------------------------
(* Errors of the remote calls of a resolution *)

\* The paging loops that resolve_dynamic_playlist_rules runs for the seed
\* query and for the sticker lookups.
ResolutionLoops == {"fetch_songs_by_query", "fetch_uris_by_sticker"}

\* C29: when a remote call made during a dynamic playlist resolution fails
\* with a connection-class (I/O) error, a Connect message is sent to the
\* caller.
C29_ConnectOnIoError ==
    (paging.fn \in ResolutionLoops /\ paging.resp = "io") =>
        \E i \in DOMAIN paging.signals : paging.signals[i] = "Connect"

-----------------------------------------------------------------------------
(* write_album_meta on table albums *)

\* Most rows of table albums before the call.
MaxAlbums == 2

\* AlbumInfo, as far as write_album_meta reads it.
AlbumInfos == [folder_uri : {1, 2}, mbid : {None, Some(1)}, title : {1, 2},
               artist : {None, Some(1)}]

\* AlbumInfo::get_artist_tag: the album artist tag, if the album has one.
get_artist_tag(album) == album.artist

\* Unique indexes album_mbid (mbid) and album_name (title, artist); a NULL is
\* distinct from every value, itself included.
AlbumsUnique(rows) ==
    \A r1, r2 \in rows :
        r1 # r2 =>
            /\ r1.mbid = None \/ r1.mbid # r2.mbid
            /\ r1.artist = None \/ r1.title # r2.title \/ r1.artist # r2.artist

AlbumTables ==
    {rows \in SUBSET AlbumInfos : Cardinality(rows) <= MaxAlbums /\ AlbumsUnique(rows)}

\* A choice that deletes by title and artist whenever there is no mbid: C30
\* must not hold of it.
DeleteKeyWithoutArtist(album) ==
    IF album.mbid # None THEN "delete_mbid" ELSE "delete_name"

\* Lines 451-463: the statement chosen by the if / else if / else.
DeleteKey(album) ==
    IF album.mbid # None THEN "delete_mbid"
    ELSE IF get_artist_tag(album) # None THEN "delete_name"
    ELSE "rollback"

AlbumMetaInit ==
    /\ StoreIdle
    /\ CmpIdle
    /\ RemoteIdle
    /\ ResolveIdle
    /\ FetchIdle
    /\ CacheIdle
    /\ paging = PagingIdle
    /\ binding = BindingIdle
    /\ schema = SchemaIdle
    /\ roundtrip = RoundtripIdle
    /\ queuing = QueuingIdle
    /\ AuxIdle
    /\ \E rows \in AlbumTables, album \in AlbumInfos :
         albumMeta = [rows |-> rows, before |-> rows, work |-> rows, album |-> album,
                      pc |-> "begin", result |-> "none", failed |-> FALSE]

\* An Err that `?` returns: the transaction is dropped, which rolls it back.
AlbumMetaErr(error) ==
    [albumMeta EXCEPT !.work = albumMeta.rows, !.result = error, !.pc = "done",
                      !.failed = TRUE]

\* Line 450: conn.transaction().
AlbumMetaBegin ==
    /\ albumMeta.pc = "begin"
    /\ \E ok \in BOOLEAN :
         albumMeta' = IF ok THEN [albumMeta EXCEPT !.pc = DeleteKey(albumMeta.album)]
                      ELSE AlbumMetaErr("DbError")

\* Lines 451-453: delete from albums where mbid = ?1.
AlbumMetaDeleteByMbid ==
    /\ albumMeta.pc = "delete_mbid"
    /\ \E ok \in BOOLEAN :
         albumMeta' =
           IF ok
           THEN [albumMeta EXCEPT
                   !.work = {r \in @ : r.mbid # albumMeta.album.mbid}, !.pc = "insert"]
           ELSE AlbumMetaErr("DbError")

\* Lines 454-459: delete from albums where title = ?1 and artist = ?2; the
\* comparison with a NULL holds of no row.
AlbumMetaDeleteByName ==
    /\ albumMeta.pc = "delete_name"
    /\ \E ok \in BOOLEAN :
         albumMeta' =
           IF ok
           THEN [albumMeta EXCEPT
                   !.work = {r \in @ : ~(/\ r.title = albumMeta.album.title
                                         /\ get_artist_tag(albumMeta.album) # None
                                         /\ r.artist = get_artist_tag(albumMeta.album))},
                   !.pc = "insert"]
           ELSE AlbumMetaErr("DbError")

\* Lines 460-463: tx.rollback() and Err(Error::InsufficientKey).
AlbumMetaRollback ==
    /\ albumMeta.pc = "rollback"
    /\ \E ok \in BOOLEAN :
         albumMeta' =
           IF ok
           THEN [albumMeta EXCEPT !.work = albumMeta.rows, !.result = "InsufficientKey",
                                  !.pc = "done"]
           ELSE AlbumMetaErr("DbError")

\* Lines 464-478: the meta is serialised and the row inserted; the insert
\* fails on a row that breaks a unique index.
AlbumMetaInsert ==
    /\ albumMeta.pc = "insert"
    /\ \E outcome \in {"ok", "ObjectToDocError", "DocToBytesError", "DbError"} :
         albumMeta' =
           IF outcome # "ok" THEN AlbumMetaErr(outcome)
           ELSE IF ~AlbumsUnique(albumMeta.work \cup {albumMeta.album})
           THEN [AlbumMetaErr("DbError") EXCEPT !.failed = albumMeta.failed]
           ELSE [albumMeta EXCEPT !.work = @ \cup {albumMeta.album}, !.pc = "commit"]

\* Lines 479-480: tx.commit() and Ok(()).
AlbumMetaCommit ==
    /\ albumMeta.pc = "commit"
    /\ \E ok \in BOOLEAN :
         albumMeta' =
           IF ok
           THEN [albumMeta EXCEPT !.rows = albumMeta.work, !.result = "Ok", !.pc = "done"]
           ELSE AlbumMetaErr("DbError")

AlbumMetaOthers ==
    <<cmpVars, remoteVars, resolveVars, fetchVars, cacheVars, storeVars, paging, binding,
      schema, roundtrip, queuing, auxVars>>

AlbumMetaNext ==
    \/ AlbumMetaBegin /\ UNCHANGED AlbumMetaOthers
    \/ AlbumMetaDeleteByMbid /\ UNCHANGED AlbumMetaOthers
    \/ AlbumMetaDeleteByName /\ UNCHANGED AlbumMetaOthers
    \/ AlbumMetaRollback /\ UNCHANGED AlbumMetaOthers
    \/ AlbumMetaInsert /\ UNCHANGED AlbumMetaOthers
    \/ AlbumMetaCommit /\ UNCHANGED AlbumMetaOthers

SpecAlbumMeta == AlbumMetaInit /\ [][AlbumMetaNext]_vars

\* The album written has neither an mbid nor an artist tag.
Keyless == albumMeta.album.mbid = None /\ get_artist_tag(albumMeta.album) = None

\* C30: write_album_meta for an album that has neither an mbid nor an artist
\* tag never deletes or inserts a row of albums, inside its transaction or
\* committed, and returns InsufficientKey; it returns DbError instead only
\* when the database failed to begin or to roll back the transaction.
C30_KeylessWritesNothing ==
    (albumMeta.pc # "off" /\ Keyless) =>
        /\ albumMeta.rows = albumMeta.before
        /\ albumMeta.work = albumMeta.before
        /\ albumMeta.pc = "done" =>
              \/ albumMeta.result = "InsufficientKey"
              \/ albumMeta.failed /\ albumMeta.result = "DbError"

\* C30 witness: a keyless album was written over a table that holds a row of
\* its title; InsufficientKey was returned.
C30_Witness ==
    /\ Keyless
    /\ albumMeta.pc = "done"
    /\ albumMeta.result = "InsufficientKey"
    /\ \E r \in albumMeta.rows : r.title = albumMeta.album.title
    /\ albumMeta.rows = albumMeta.before

-----------------------------------------------------------------------------
(* fetch_dynamic_playlist_cached *)

\* The stored URI sequence of the DP fetched, without the songs that the
\* remote server no longer has.
StoredAndFound ==
    SelectSeq(query_results[dp.name], LAMBDA u : u \notin hydration.faults.gone)

\* C31: what fetch_dynamic_playlist_cached delivers is the stored URI sequence
\* in its stored order, hydrated without requesting stickers and not sorted,
\* in batches of at most BATCH_SIZE songs, every one but the last full,
\* followed by one empty batch.
C31_CachedOrderKept ==
    (fn = "fetch_dynamic_playlist_cached" /\ sent # <<>>) =>
        /\ ~hydration.fetch_stickers
        /\ hydration.uris = query_results[dp.name]
        /\ Delivered(sent) = StoredAndFound
        /\ \A i \in 1..Len(NonEmptyBatches) :
              /\ Len(NonEmptyBatches[i].batch) <= BATCH_SIZE
              /\ i < Len(NonEmptyBatches) => Len(NonEmptyBatches[i].batch) = BATCH_SIZE
        /\ Len(sent) = Len(NonEmptyBatches) + 1
        /\ sent[Len(sent)] = Sentinel(dp.name)

\* C31 witness: a stored sequence that is not in increasing order and is
\* longer than one batch was delivered as stored, in a full batch, a shorter
\* one and the empty batch.
C31_Witness ==
    /\ fn = "fetch_dynamic_playlist_cached"
    /\ query_results[dp.name] = <<4, 1, 3>>
    /\ Len(sent) = 3
    /\ sent[1].batch = <<4, 1>>
    /\ sent[2].batch = <<3>>
    /\ sent[3] = Sentinel(dp.name)

-----------------------------------------------------------------------------
(* The windows of fetch_songs_by_query *)

\* The last request of the loop was answered by a page of fewer than
\* BATCH_SIZE records: an empty page leaves curr_len where it was and clears
\* more, a page that is short but not empty moves curr_len past the last
\* record.
ShortPageReceived ==
    /\ paging.resp = "ok"
    /\ ~paging.more \/ paging.total < paging.curr_len

\* C32: fetch_songs_by_query asks for consecutive windows of BATCH_SIZE
\* records, hands every record of every page to its caller, and stops paging
\* as soon as a page of fewer than BATCH_SIZE records is returned: after a
\* short page the loop does not go round again.
C32_StopsAfterShortPage ==
    paging.fn = "fetch_songs_by_query" =>
        /\ paging.curr_len % BATCH_SIZE = 0
        /\ paging.acc = SubSeq(PagingRecords, 1, Min(paging.curr_len, paging.total))
        /\ ShortPageReceived => ~paging.more

-----------------------------------------------------------------------------
(* Order and number of the round-trips of one resolution *)

\* The seed query has run, without an error, and matched no song.
SeedEmpty ==
    /\ rpc \in {"stickers", "done", "hung"}
    /\ remote.findErrAt = -1
    /\ SeedSet(rules) = {}

\* C33: when the combined attribute query yields an empty seed set and the
\* rule list has at least one sticker clause, resolve_dynamic_playlist_rules
\* makes no sticker-comparison round-trip.
C33_NoStickerCallOnEmptySeed ==
    (SeedEmpty /\ sticker_clauses # <<>>) =>
        \A k \in 1..Len(calls) : calls[k].op # "find_sticker_op"

\* C34: within one resolution every round-trip of the combined attribute
\* query comes before the first round-trip made for a sticker clause, in
\* whatever order the Sticker, Query and LastModified rules stand in the rule
\* list.
C34_QueryBeforeStickers ==
    \A j, k \in 1..Len(calls) :
        (j < k /\ calls[k].clause = 0) => calls[j].clause = 0

\* C34 witness: a rule list with its sticker rule first and its query rule
\* second was resolved with round-trips for both.
C34_Witness ==
    /\ rpc = "done"
    /\ Len(rules) = 2
    /\ rules[1][1] = "Sticker"
    /\ rules[2][1] \in {"Query", "LastModified"}
    /\ \E k \in 1..Len(calls) : calls[k].clause = 0 /\ calls[k].start > 0
    /\ \E k \in 1..Len(calls) : calls[k].op = "find_sticker_op"

\* The rule list has no Query and no LastModified rule.
OnlyStickerRules == \A i \in 1..Len(rules) : rules[i][1] = "Sticker"

\* C35: for a rule list with no Query and no LastModified rule the seed set
\* is the whole library, on a server that answers the query without an error;
\* such a list resolves to the songs of the library that are in the match set
\* of every sticker clause, and the empty list to every song.
C35_NoFilterIsWholeLibrary ==
    (OnlyStickerRules /\ remote.findErrAt = -1) =>
        /\ (rpc = "stickers" /\ clauseIdx = 1) => res = Library
        /\ rpc = "done" =>
              ret = {u \in Library :
                       \A i \in 1..Len(rules) : u \in MatchSet(StickerClausesOf(rules)[i])}
        /\ (rpc = "done" /\ rules = <<>>) => ret = Library

\* C35 witness: two sticker rules and no other resolved to some songs of the
\* library and not all.
C35_Witness ==
    /\ OnlyStickerRules
    /\ Len(rules) = 2
    /\ remote.findErrAt = -1
    /\ rpc = "done"
    /\ ret # {}
    /\ ret # Library
    /\ ret # MatchSet(sticker_clauses[1])

\* The query of the round-trip has the term LastMod with value v.
SentLastMod(call, v) ==
    \E t \in 1..Len(call.sentWith) : call.sentWith[t] = <<"LastMod", v>>

\* C36: with T the time at which the resolution runs, every round-trip of the
\* combined query carries T - s for each LastModified(s) rule, and every
\* sticker comparison of a lastPlayed or lastSkipped clause with right-hand
\* side s carries T - s; the right-hand side of any other sticker clause is
\* sent as it is.
C36_RelativeToResolutionTime ==
    \A k \in 1..Len(calls) :
        /\ (calls[k].op = "find" /\ calls[k].clause = 0) =>
              \A i \in 1..Len(rules) :
                  rules[i][1] = "LastModified" => SentLastMod(calls[k], now - rules[i][2])
        /\ calls[k].op = "find_sticker_op" =>
              LET c == sticker_clauses[calls[k].clause]
              IN  calls[k].sentWith =
                     IF c[2] \in {"lastPlayed", "lastSkipped"} THEN <<now - c[4]>> ELSE <<c[4]>>

\* C36 witness: a LastModified rule and a lastPlayed sticker rule were
\* resolved, with a round-trip for each.
C36_Witness ==
    /\ rpc = "done"
    /\ \E i \in 1..Len(rules) : rules[i][1] = "LastModified"
    /\ \E k \in 1..Len(calls) : calls[k].op = "find" /\ calls[k].clause = 0
    /\ \E k \in 1..Len(calls) :
          /\ calls[k].op = "find_sticker_op"
          /\ sticker_clauses[calls[k].clause][2] = "lastPlayed"
          /\ calls[k].sentWith = <<2>>

-----------------------------------------------------------------------------
(* The store during a fetch *)

\* C37: no step of a fetch_dynamic_playlist called with cache = false changes
\* the store: the cached result rows and last_refresh of every DP stay as
\* they are.
C37_PreviewWritesNothing ==
    [][(fn' = "fetch_dynamic_playlist" /\ ~cache') =>
          (query_results' = query_results /\ last_refresh' = last_refresh)]_vars

\* C37 witness: fetch_dynamic_playlist with cache = false has delivered songs
\* that are not the cached rows of the DP, and nothing was written.
C37_Witness ==
    /\ fn = "fetch_dynamic_playlist"
    /\ ~cache
    /\ pc = "done"
    /\ Delivered(sent) # <<>>
    /\ Delivered(sent) # query_results[dp.name]
    /\ query_results \in CacheStates
    /\ last_refresh[dp.name] = None
    /\ cacheWrite = "none"

-----------------------------------------------------------------------------
(* The ordering section of the dynamic playlist editor
   (library/dynamic_playlist_editor_view.rs) *)

\* Most ordering buttons in the box.
MaxButtons == 3

\* Ordering::reverse: the key of the same field in the other direction, None
\* for Track and Random.
OrderingReverse(ordering) ==
    LET others == {k \in OrderingKeys \ {ordering} :
                      FieldOf(k) # "none" /\ FieldOf(k) = FieldOf(ordering)}
    IN  IF others = {} THEN None ELSE Some(CHOOSE k \in others : TRUE)

\* A presence array that marks the keys of the buttons only: C38 must not
\* hold of it.
PresenceOfButtonsOnly(list) == {list[i] : i \in 1..Len(list)}

\* Lines 695-703: presence[] after the loop over the buttons, a key and its
\* reverse being marked together.
Presence(list) ==
    {list[i] : i \in 1..Len(list)}
      \cup {OrderingReverse(list[i])[1] :
              i \in {j \in 1..Len(list) : OrderingReverse(list[j]) # None}}

\* Lines 689-733: on_ordering_changed, run by items-changed of the box. With
\* Random among the buttons the Add Ordering button is disabled and the menu
\* is left as it was.
on_ordering_changed(list, menu) ==
    LET has_random == \E i \in 1..Len(list) : list[i] = "Random"
        has_other == \E i \in 1..Len(list) : list[i] # "Random"
    IN  [orderings |-> list,
         sensitive |-> ~has_random,
         menu |-> IF ~has_random
                  THEN {opt \in OrderingKeys :
                          opt \notin Presence(list) /\ (opt # "Random" \/ ~has_other)}
                  ELSE menu,
         pc |-> "open"]

\* Lines 276-278: the editor is constructed with no ordering button and the
\* menu is built once.
EditorInit ==
    /\ StoreIdle
    /\ CmpIdle
    /\ RemoteIdle
    /\ ResolveIdle
    /\ FetchIdle
    /\ CacheIdle
    /\ paging = PagingIdle
    /\ binding = BindingIdle
    /\ schema = SchemaIdle
    /\ roundtrip = RoundtripIdle
    /\ queuing = QueuingIdle
    /\ albumMeta = AlbumMetaIdle
    /\ recent = RecentIdle
    /\ editor = on_ordering_changed(<<>>, {})

\* Lines 244-269: an item of the Add Ordering menu is activated; the button is
\* appended to the box.
EditorAddOrdering ==
    /\ editor.pc = "open"
    /\ editor.sensitive
    /\ Len(editor.orderings) < MaxButtons
    /\ \E opt \in editor.menu :
         editor' = on_ordering_changed(Append(editor.orderings, opt), editor.menu)

\* Lines 254-260: an ordering button is clicked and removed from the box.
EditorRemoveOrdering ==
    /\ editor.pc = "open"
    /\ \E i \in 1..Len(editor.orderings) :
         editor' = on_ordering_changed(
                     SubSeq(editor.orderings, 1, i - 1)
                       \o SubSeq(editor.orderings, i + 1, Len(editor.orderings)),
                     editor.menu)

EditorOthers ==
    <<cmpVars, remoteVars, resolveVars, fetchVars, cacheVars, storeVars, paging, binding,
      schema, roundtrip, queuing, albumMeta, recent>>

EditorNext ==
    \/ EditorAddOrdering /\ UNCHANGED EditorOthers
    \/ EditorRemoveOrdering /\ UNCHANGED EditorOthers

SpecEditor == EditorInit /\ [][EditorNext]_vars

\* C38: after any sequence of add-ordering and remove-ordering actions the
\* ordering list never has Random together with another key, never has a key
\* twice and never has both directions of one field.
C38_OrderingsValid ==
    editor.pc = "open" =>
        LET list == editor.orderings
        IN  /\ (\E i \in 1..Len(list) : list[i] = "Random") => Len(list) = 1
            /\ \A i, j \in 1..Len(list) :
                  i # j =>
                      /\ list[i] # list[j]
                      /\ FieldOf(list[i]) = "none" \/ FieldOf(list[i]) # FieldOf(list[j])

\* C38 witness: with one direction of a field and Track in the box, the menu
\* offers neither of them, nor the other direction, nor Random.
C38_Witness ==
    /\ editor.pc = "open"
    /\ editor.orderings = <<"DescRating", "Track">>
    /\ editor.sensitive
    /\ editor.menu \cap {"DescRating", "AscRating", "Track", "Random"} = {}
    /\ "AscAlbumTitle" \in editor.menu

-----------------------------------------------------------------------------
(* The recently played songs (fetch_last_n_songs of client/background.rs,
   get_last_n_songs of cache/sqlite.rs) *)

\* Most rows of songs_history; the URIs played are 1..MaxHistory.
MaxHistory == 3

\* Table songs_history as the URIs played, oldest first: the timestamp of a
\* row is its place, so no two rows have the same timestamp.
RecentHistories ==
    UNION {[1..len -> 1..MaxHistory] : len \in 0..MaxHistory}

\* At most one URI is not found and at most one lookup fails.
RecentFaults ==
    {[gone |-> g, findErr |-> e, stickerErr |-> {}] :
        g \in {{}} \cup {{u} : u \in 1..MaxHistory},
        e \in {{}} \cup {{u} : u \in 1..MaxHistory}}

\* max(timestamp) of the rows of one URI.
LastPlayedIn(history, uri) ==
    CHOOSE i \in 1..Len(history) :
        /\ history[i] = uri
        /\ \A j \in (i + 1)..Len(history) : history[j] # uri

\* sqlite.rs get_last_n_songs: select uri, max(timestamp) as last_played from
\* songs_history group by uri order by last_played desc limit n.
get_last_n_songs(history, n) ==
    LET rows == [i \in 1..Len(history) |->
                    <<history[Len(history) + 1 - i], Len(history) + 1 - i>>]
        IsLatest(row) == LastPlayedIn(history, row[1]) = row[2]
        grouped == SelectSeq(rows, IsLatest)
    IN  SubSeq(grouped, 1, Min(n, Len(grouped)))

\* Lines 842-854: the songs found are zipped with the timestamps of to_fetch,
\* the i-th song with the i-th timestamp; zip stops at the shorter of the two.
ZipLastPlayed(raw_songs, to_fetch) ==
    [i \in 1..Min(Len(raw_songs), Len(to_fetch)) |->
        [uri |-> raw_songs[i].uri, last_played |-> to_fetch[i][2]]]

RecentInit ==
    /\ StoreIdle
    /\ CmpIdle
    /\ RemoteIdle
    /\ ResolveIdle
    /\ FetchIdle
    /\ CacheIdle
    /\ paging = PagingIdle
    /\ binding = BindingIdle
    /\ schema = SchemaIdle
    /\ roundtrip = RoundtripIdle
    /\ queuing = QueuingIdle
    /\ albumMeta = AlbumMetaIdle
    /\ editor = EditorIdle
    /\ \E history \in RecentHistories, n \in 1..MaxHistory, dbErr \in BOOLEAN,
          faults \in RecentFaults :
         recent = [history |-> history, n |-> n, dbErr |-> dbErr, faults |-> faults,
                   to_fetch |-> <<>>, sent |-> <<>>, pc |-> "start"]

\* Lines 829-830: the history is read; a database error panics at expect.
RecentQuery ==
    /\ recent.pc = "start"
    /\ recent' = IF recent.dbErr
                 THEN [recent EXCEPT !.pc = "panicked"]
                 ELSE [recent EXCEPT !.to_fetch = get_last_n_songs(recent.history, recent.n),
                                     !.pc = "fetch"]

\* Lines 831-864: the songs are looked up one URI at a time without stickers
\* and sent with their timestamps if there is any; a failed lookup sends
\* BackgroundError.
RecentFetch ==
    /\ recent.pc = "fetch"
    /\ LET uris == [i \in 1..Len(recent.to_fetch) |-> recent.to_fetch[i][1]]
           raw == fetch_songs_by_uri(uris, FALSE, recent.faults)
           songs == ZipLastPlayed(raw.found, recent.to_fetch)
       IN  recent' = [recent EXCEPT
                        !.sent = IF ~raw.ok THEN << <<"BackgroundError">> >>
                                 ELSE IF songs # <<>>
                                      THEN << <<"RecentSongInfoDownloaded", songs>> >>
                                 ELSE <<>>,
                        !.pc = "done"]

RecentOthers ==
    <<cmpVars, remoteVars, resolveVars, fetchVars, cacheVars, storeVars, paging, binding,
      schema, roundtrip, queuing, albumMeta, editor>>

RecentNext ==
    \/ RecentQuery /\ UNCHANGED RecentOthers
    \/ RecentFetch /\ UNCHANGED RecentOthers

SpecRecent == RecentInit /\ [][RecentNext]_vars

\* C39: in fetch_last_n_songs every delivered song carries the last-played
\* timestamp recorded in the history for its own URI, also when some of the
\* history URIs are no longer found on the remote server.
C39_OwnTimestamp ==
    \A k \in 1..Len(recent.sent) :
        recent.sent[k][1] = "RecentSongInfoDownloaded" =>
            \A i \in 1..Len(recent.sent[k][2]) :
                recent.sent[k][2][i].last_played
                    = LastPlayedIn(recent.history, recent.sent[k][2][i].uri)

====
